---- MODULE Spec2Model ----
(***************************************************************************)
(* Model of smoldot's executor::runtime_host: the driver that runs a Wasm  *)
(* runtime to completion with a storage overlay, a storage-transaction     *)
(* stack, an on-demand trie-root calculation and a capped log buffer.      *)
(*                                                                         *)
(* Byte strings are sequences of integers 0..255, keys are byte strings,   *)
(* Option<T> is a sequence of length 0 (None) or 1 (Some).                 *)
(***************************************************************************)
EXTENDS Integers, Sequences, FiniteSets, TLC

VARIABLES
    vm,                       \* Inner::vm, the paused host::HostVm
    main_trie_changes,        \* Inner::main_trie_changes
    main_trie_transaction,    \* Inner::main_trie_transaction
    offchain_storage_changes, \* Inner::offchain_storage_changes
    root_calculation,         \* Inner::root_calculation
    logs,                     \* Inner::logs, as the sequence of accepted writes
    state_trie_version,       \* Inner::state_trie_version
    max_log_level,            \* Inner::max_log_level
    status,                   \* the RuntimeHostVm variant the client holds
    key_overwrite,            \* NextKey::key_overwrite
    keys_removed_so_far,      \* NextKey::keys_removed_so_far
    backing,                  \* the client's backing store (set of keys)
    hist,                     \* history of the externality being served
    program,                  \* the class of runtime program being run
    app                       \* input and output of append_to_storage_value

vars == <<vm, main_trie_changes, main_trie_transaction, offchain_storage_changes,
          root_calculation, logs, state_trie_version, max_log_level, status,
          key_overwrite, keys_removed_so_far, backing, hist, program, app>>

driverVars == <<vm, main_trie_changes, main_trie_transaction, offchain_storage_changes,
          root_calculation, logs, state_trie_version, max_log_level, status,
          key_overwrite, keys_removed_so_far, backing, hist, program>>

-----------------------------------------------------------------------------
(* Bounds of the model.                                                    *)

\* Number of externalities a runtime of class "any" issues during one call.
MaxOps == 2

\* Number of externalities a runtime of class "storage" issues.
MaxStorageOps == 3

\* Number of externalities a runtime of class "transactional" issues.
MaxTxOps == 5

\* Number of keys a client is let to feed to one clear-prefix (the counter
\* keys_removed_so_far has no bound of its own when the limit is None).
MaxRemoved == 3

\* Greatest length of the payload that follows the length prefix of an
\* appended-to value.
MaxPayload == 2

-----------------------------------------------------------------------------
(* Option and byte-string helpers.                                         *)

None == <<>>

Some(x) == <<x>>

IsSome(o) == Len(o) = 1

\* Lexicographic order of byte strings (and of nibble strings), `a < b`.
RECURSIVE SeqLess(_, _)
SeqLess(a, b) ==
    IF b = <<>> THEN FALSE
    ELSE IF a = <<>> THEN TRUE
    ELSE IF a[1] # b[1] THEN a[1] < b[1]
    ELSE SeqLess(Tail(a), Tail(b))

SeqLeq(a, b) == a = b \/ SeqLess(a, b)

StartsWith(k, p) == Len(k) >= Len(p) /\ SubSeq(k, 1, Len(p)) = p

\* The least element of a non-empty set of strings.
MinSeq(S) == CHOOSE x \in S : \A y \in S : SeqLeq(x, y)

\* trie::bytes_to_nibbles: each byte gives its high then its low nibble.
RECURSIVE bytes_to_nibbles(_)
bytes_to_nibbles(bytes) ==
    IF bytes = <<>> THEN <<>>
    ELSE <<bytes[1] \div 16, bytes[1] % 16>> \o bytes_to_nibbles(Tail(bytes))

\* trie::nibbles_to_bytes_suffix_extend: pairs of nibbles give bytes; a last
\* unpaired nibble is extended with a zero low nibble.
RECURSIVE nibbles_to_bytes_suffix_extend(_)
nibbles_to_bytes_suffix_extend(nibbles) ==
    IF nibbles = <<>> THEN <<>>
    ELSE IF Len(nibbles) = 1 THEN <<nibbles[1] * 16>>
    ELSE <<nibbles[1] * 16 + nibbles[2]>>
             \o nibbles_to_bytes_suffix_extend(Tail(Tail(nibbles)))

-----------------------------------------------------------------------------
(* storage_diff::TrieDiff: a map from key to Option<value>; Some is an     *)
(* inserted value, None an erasure.                                        *)

EmptyDiff == [k \in {} |-> None]

\* TrieDiff::diff_get: None without an entry, else Some(entry).
diff_get(diff, key) ==
    IF key \in DOMAIN diff THEN Some(diff[key]) ELSE None

\* TrieDiff::diff_insert
diff_insert(diff, key, value) ==
    [k \in (DOMAIN diff) \cup {key} |-> IF k = key THEN Some(value) ELSE diff[k]]

\* TrieDiff::diff_insert_erase
diff_insert_erase(diff, key) ==
    [k \in (DOMAIN diff) \cup {key} |-> IF k = key THEN None ELSE diff[k]]

\* TrieDiff::storage_next_key with or_equal = false.  The result is
\* [found |-> TRUE, key |-> Option<key>], [found |-> FALSE, key |-> k] for
\* NextOf(k), or "panic" when the parent's key is not greater than `key`.
storage_next_key(diff, key, in_parent_next_key) ==
    LET after == {k \in DOMAIN diff : SeqLess(key, k)}
    IN  IF IsSome(in_parent_next_key) /\ ~SeqLess(key, in_parent_next_key[1])
        THEN [panic |-> TRUE, found |-> FALSE, key |-> None]
        ELSE IF after = {}
        THEN [panic |-> FALSE, found |-> TRUE, key |-> in_parent_next_key]
        ELSE LET b == MinSeq(after)
                 inserted == IsSome(diff[b])
             IN  IF IsSome(in_parent_next_key)
                    /\ (IF inserted THEN SeqLeq(in_parent_next_key[1], b)
                                    ELSE SeqLess(in_parent_next_key[1], b))
                 THEN [panic |-> FALSE, found |-> TRUE, key |-> in_parent_next_key]
                 ELSE IF inserted
                 THEN [panic |-> FALSE, found |-> TRUE, key |-> Some(b)]
                 ELSE [panic |-> FALSE, found |-> FALSE, key |-> Some(b)]

-----------------------------------------------------------------------------
(* SCALE compact integers (util) and append_to_storage_value.  A usize is  *)
(* held as its UsizeBytes little-endian bytes, so that lengths up to       *)
(* usize::MAX and the overflow of `checked_add` are represented exactly.   *)

\* Width of usize in bytes (the code speaks of u64::max_value()).
UsizeBytes == 8

ZeroUsize == [i \in 1..UsizeBytes |-> 0]

OneUsize == [i \in 1..UsizeBytes |-> IF i = 1 THEN 1 ELSE 0]

\* The usize of a number below 2^30.
UsizeOf(n) ==
    [i \in 1..UsizeBytes |->
        IF i = 1 THEN n % 256
        ELSE IF i = 2 THEN (n \div 256) % 256
        ELSE IF i = 3 THEN (n \div 65536) % 256
        ELSE IF i = 4 THEN (n \div 16777216) % 256
        ELSE 0]

\* Number of bytes up to the most significant non-zero one.
RECURSIVE SigLenFrom(_, _)
SigLenFrom(d, i) ==
    IF i = 0 THEN 0 ELSE IF d[i] # 0 THEN i ELSE SigLenFrom(d, i - 1)

SigLen(d) == SigLenFrom(d, Len(d))

\* d < 2^30
Below2p30(d) == SigLen(d) <= 4 /\ d[4] < 64

\* The number a usize below 2^30 stands for.
NumOf(d) == d[1] + 256 * d[2] + 65536 * d[3] + 16777216 * d[4]

\* usize::checked_add(1): None on overflow.
RECURSIVE IncFrom(_, _)
IncFrom(d, i) ==
    IF i > Len(d) THEN None
    ELSE IF d[i] < 255 THEN Some([d EXCEPT ![i] = d[i] + 1])
    ELSE IncFrom([d EXCEPT ![i] = 0], i + 1)

checked_add_one(d) == IncFrom(d, 1)

\* util::encode_scale_compact_usize
encode_scale_compact_usize(d) ==
    IF Below2p30(d)
    THEN LET n == NumOf(d)
         IN  IF n < 64 THEN <<n * 4>>
             ELSE IF n < 16384
             THEN <<(n % 64) * 4 + 1, (n \div 64) % 256>>
             ELSE <<(n % 64) * 4 + 2, (n \div 64) % 256,
                    (n \div 16384) % 256, (n \div 4194304) % 256>>
    ELSE <<(SigLen(d) - 4) * 4 + 3>> \o SubSeq(d, 1, SigLen(d))

\* util::nom_scale_compact_usize: [ok, len (a usize), size (bytes read)].
\* An encoding that is not the shortest one of its number is rejected.
DecodeFail == [ok |-> FALSE, len |-> ZeroUsize, size |-> 0]

nom_scale_compact_usize(bytes) ==
    IF bytes = <<>> THEN DecodeFail
    ELSE LET mode == bytes[1] % 4
             low == bytes[1] \div 4
         IN  IF mode = 0 THEN [ok |-> TRUE, len |-> UsizeOf(low), size |-> 1]
             ELSE IF mode = 1
             THEN IF Len(bytes) < 2 \/ bytes[2] = 0 THEN DecodeFail
                  ELSE [ok |-> TRUE, len |-> UsizeOf(low + 64 * bytes[2]), size |-> 2]
             ELSE IF mode = 2
             THEN IF Len(bytes) < 4 THEN DecodeFail
                  ELSE LET n == low + 64 * bytes[2] + 16384 * bytes[3]
                                    + 4194304 * bytes[4]
                       IN  IF n < 16384 THEN DecodeFail
                           ELSE [ok |-> TRUE, len |-> UsizeOf(n), size |-> 4]
             ELSE LET num_bytes == low + 4
                  IN  IF Len(bytes) < num_bytes + 1 THEN DecodeFail
                      ELSE IF bytes[num_bytes + 1] = 0 THEN DecodeFail
                      ELSE IF num_bytes > UsizeBytes THEN DecodeFail
                      ELSE LET d == [i \in 1..UsizeBytes |->
                                        IF i <= num_bytes THEN bytes[i + 1] ELSE 0]
                           IN  IF Below2p30(d) THEN DecodeFail
                               ELSE [ok |-> TRUE, len |-> d, size |-> num_bytes + 1]

\* Variant: a value that does not decode is kept and extended.
append_to_storage_value_KeepsMalformed(value, to_add, debug_assertions) ==
    LET dec == nom_scale_compact_usize(value)
    IN  IF ~dec.ok \/ checked_add_one(dec.len) = None
        THEN [value |-> value \o encode_scale_compact_usize(OneUsize) \o to_add,
              panic |-> FALSE]
        ELSE LET enc == encode_scale_compact_usize(checked_add_one(dec.len)[1])
             IN  [value |-> enc
                       \o SubSeq([i \in 1..(Len(enc) - dec.size) |-> 0] \o value,
                                 Len(enc) + 1, Len(value) + Len(enc) - dec.size)
                       \o to_add,
                  panic |-> FALSE]

\* The builds: with debug assertions evaluated, or compiled out.
Builds == BOOLEAN

\* The value append_to_storage_value leaves when the stored one is replaced.
AppendReset(to_add) ==
    [value |-> encode_scale_compact_usize(OneUsize) \o to_add, panic |-> FALSE]

\* append_to_storage_value: the new value, or a panic when the build has
\* debug assertions and the assertion on the two widths fails (the value is
\* then left as it was).  Without debug assertions the payload is moved right
\* by the difference of the two widths, whatever it is.
append_to_storage_value(value, to_add, debug_assertions) ==
    LET dec == nom_scale_compact_usize(value)
    IN  IF ~dec.ok THEN AppendReset(to_add)
        ELSE LET new_len == checked_add_one(dec.len)
             IN  IF new_len = None THEN AppendReset(to_add)
                 ELSE LET new_len_encoded == encode_scale_compact_usize(new_len[1])
                          new_size == Len(new_len_encoded)
                          curr_size == dec.size
                      IN  IF debug_assertions
                             /\ ~(new_size = curr_size \/ new_size = curr_size + 1)
                          THEN [value |-> value, panic |-> TRUE]
                          ELSE LET shifted ==
                                     [i \in 1..(new_size - curr_size) |-> 0] \o value
                               IN  [value |-> new_len_encoded
                                        \o SubSeq(shifted, new_size + 1, Len(shifted))
                                        \o to_add,
                                    panic |-> FALSE]

-----------------------------------------------------------------------------
(* The runtime and the client: the inputs of the driver.                   *)

K1 == <<1>>

K2 == <<1, 16>>

K3 == <<16>>

\* Storage keys the runtime and the backing store use.
Keys == {K1, K2, K3}

\* Prefixes the runtime clears.
Prefixes == {<<>>, K1}

\* Value the runtime writes, element it appends.
ValueAA == <<170>>

Element == <<1>>

\* Value the backing store holds under a key.
BackingValue(k) == IF k = K3 THEN <<4, 2>> ELSE <<187>>

\* Option<u32> limits of a clear-prefix.
MaxKeysToRemove == {None, Some(0), Some(1), Some(2)}

LogCap == 1048576

\* A log message as the writes its formatting performs: <<"str", n>> is
\* write_str of n bytes, <<"char", n>> is write_char of a character of n
\* bytes (the characters the formatting machinery emits are ASCII).
LogMessages ==
    { << <<"str", 1>> >>,
      << <<"str", 524288>> >>,
      << <<"str", 524287>>, <<"char", 1>> >>,
      << <<"char", 1>>, <<"str", 1048575>> >>,
      << <<"str", 1048574>>, <<"char", 1>> >> }

Tries == {"MainTrie", "ChildTrie"}

\* The externalities the runtime may stop at (host::HostVm), besides
\* ReadyToRun.
StorageRequests ==
         {[kind |-> "ExternalStorageGet", trie |-> "MainTrie", key |-> k] : k \in Keys}
    \cup {[kind |-> "ExternalStorageSet", trie |-> "MainTrie", key |-> k, value |-> v] :
              k \in Keys, v \in {None, Some(ValueAA)}}
    \cup {[kind |-> "ExternalStorageAppend", trie |-> "MainTrie", key |-> k,
           to_add |-> Element] : k \in Keys}
    \cup {[kind |-> "ExternalStorageClearPrefix", trie |-> "MainTrie", prefix |-> p,
           max_keys_to_remove |-> m] : p \in Prefixes, m \in MaxKeysToRemove}
    \cup {[kind |-> "ExternalStorageNextKey", trie |-> "MainTrie", key |-> k] :
              k \in Keys \cup {<<>>}}
    \cup {[kind |-> "ExternalStorageRoot", trie |-> "MainTrie"]}

ChildTrieRequests ==
    { [kind |-> "ExternalStorageGet", trie |-> "ChildTrie", key |-> K1],
      [kind |-> "ExternalStorageSet", trie |-> "ChildTrie", key |-> K1,
       value |-> Some(ValueAA)],
      [kind |-> "ExternalStorageAppend", trie |-> "ChildTrie", key |-> K1,
       to_add |-> Element],
      [kind |-> "ExternalStorageClearPrefix", trie |-> "ChildTrie", prefix |-> <<>>,
       max_keys_to_remove |-> None],
      [kind |-> "ExternalStorageNextKey", trie |-> "ChildTrie", key |-> <<>>],
      [kind |-> "ExternalStorageRoot", trie |-> "ChildTrie"] }

OtherRequests ==
         {[kind |-> "ExternalOffchainStorageSet", key |-> K1, value |-> v] :
              v \in {None, Some(ValueAA)}}
    \cup {[kind |-> "SignatureVerification"]}
    \cup {[kind |-> "CallRuntimeVersion", wasm_code_ok |-> b] : b \in BOOLEAN}
    \cup {[kind |-> "StartStorageTransaction"]}
    \cup {[kind |-> "EndStorageTransaction", rollback |-> b] : b \in BOOLEAN}
    \cup {[kind |-> "GetMaxLogLevel"]}
    \cup {[kind |-> "LogEmit", msg |-> m] : m \in LogMessages}

FinalRequests == {[kind |-> "Finished"], [kind |-> "Error"]}

\* Externalities of a runtime that works on the storage inside transactions.
TransactionalRequests ==
    { [kind |-> "StartStorageTransaction"],
      [kind |-> "EndStorageTransaction", rollback |-> TRUE],
      [kind |-> "EndStorageTransaction", rollback |-> FALSE],
      [kind |-> "ExternalStorageSet", trie |-> "MainTrie", key |-> K1,
       value |-> Some(ValueAA)],
      [kind |-> "ExternalStorageSet", trie |-> "MainTrie", key |-> K2, value |-> None],
      [kind |-> "ExternalStorageAppend", trie |-> "MainTrie", key |-> K3,
       to_add |-> Element],
      [kind |-> "ExternalStorageClearPrefix", trie |-> "MainTrie", prefix |-> K1,
       max_keys_to_remove |-> None],
      [kind |-> "ExternalOffchainStorageSet", key |-> K1, value |-> Some(ValueAA)],
      [kind |-> "LogEmit", msg |-> << <<"str", 1>> >>] }

\* The classes of runtime programs run: the externalities each may issue
\* and how many of them.
Programs == {"any", "storage", "transactional"}

ProgramRequests(p) ==
    IF p = "any" THEN StorageRequests \cup ChildTrieRequests \cup OtherRequests
    ELSE IF p = "storage"
    THEN {r \in StorageRequests : r.kind # "ExternalStorageRoot"}
    ELSE TransactionalRequests

ProgramBudget(p) ==
    IF p = "any" THEN MaxOps ELSE IF p = "storage" THEN MaxStorageOps ELSE MaxTxOps

\* HostVm::ReadyToRun holding what the externality was resumed with.
Resumed(op, val) == [kind |-> "ReadyToRun", resumed |-> [op |-> op, val |-> val]]

\* Initial main-trie diffs of Config.
InitialDiffs == {EmptyDiff, diff_insert(EmptyDiff, K1, ValueAA)}

\* Nibble keys a client may answer to a NextKey.
ClientKeyAnswers ==
    {None} \cup {Some(bytes_to_nibbles(k)) : k \in Keys} \cup {Some(<<1>>)}

\* Values a client may answer to a StorageGet.
ClientValueAnswers ==
    {None, Some(<<(<<187>>), "V0">>), Some(<<(<<4, 2>>), "V1">>)}


-----------------------------------------------------------------------------
(* trie_root_calculator::InProgress.  The calculator is a state machine of *)
(* its own; its next request is a nondeterministic choice, bounded by      *)
(* MaxRootSteps requests per calculation.                                  *)

MaxRootSteps == 2

RootHash(calc) == [root_of |-> calc.diff, version |-> calc.version]

CalcRequests(diff, version, hint, steps, fed) ==
    IF steps >= MaxRootSteps
    THEN {[state |-> "Finished", key |-> <<>>, diff |-> diff, version |-> version,
           steps |-> steps, fed |-> fed,
               hint |-> hint]}
    ELSE   {[state |-> "ClosestDescendant", key |-> k, diff |-> diff,
               version |-> version, steps |-> steps + 1, fed |-> fed,
               hint |-> hint] :
                 k \in {<<>>, <<0>>}}
      \cup {[state |-> "StorageValue", key |-> k, diff |-> diff,
               version |-> version, steps |-> steps + 1, fed |-> fed,
               hint |-> hint] :
                 k \in {<<0>>, <<0, 1>>}}
      \cup {[state |-> "ClosestDescendantMerkleValue", key |-> <<0>>, diff |-> diff,
               version |-> version, steps |-> steps + 1, fed |-> fed,
               hint |-> hint]}
      \cup {[state |-> "Finished", key |-> <<>>, diff |-> diff, version |-> version,
               steps |-> steps, fed |-> fed,
               hint |-> hint]}

\* What the calculator was last fed: nothing that matters here, or the
\* answer to a storage value request (its key, and whether a value).
NotFed == <<>>

FedValue(key, value) == <<key, IF IsSome(value) THEN "Some" ELSE "None">>

\* trie_root_calculator::trie_root_calculator(Config)
trie_root_calculator(diff, version, hint) ==
    CalcRequests(diff, version, hint, 0, NotFed)

\* ClosestDescendant::inject, StorageValue::inject_value,
\* ClosestDescendantMerkleValue::{inject_merkle_value, resume_unknown}
CalcAdvance(calc, fed) ==
    CalcRequests(calc.diff, calc.version, calc.hint, calc.steps, fed)

-----------------------------------------------------------------------------
(* State after `run(config)` has built Inner, before Inner::run loops.     *)

NoRequest == [kind |-> "none"]

Init ==
    /\ vm = Resumed("start", None)
    /\ main_trie_changes \in InitialDiffs
    /\ main_trie_transaction = <<>>
    /\ offchain_storage_changes = EmptyDiff
    /\ root_calculation = None
    /\ logs = <<>>
    /\ state_trie_version = "V1"
    /\ max_log_level = 3
    /\ status = "Running"
    /\ key_overwrite = None
    /\ keys_removed_so_far = 0
    /\ program \in Programs
    /\ backing \in (IF program = "transactional" THEN {Keys} ELSE SUBSET Keys)
    /\ hist = [req |-> NoRequest, pre |-> main_trie_changes, yields |-> 0,
               honest |-> TRUE, ops |-> 0, vm_tx |-> 0, tx_start |-> <<>>,
               at_start |-> EmptyDiff, logs_pre |-> <<>>, invalid |-> "no",
               offchain_pre |-> offchain_storage_changes, answer |-> None,
               emitted |-> <<>>, overlay_only |-> EmptyDiff,
               offchain_written |-> EmptyDiff, tx_clean |-> FALSE,
               clean_at_start |-> FALSE, inner_commit |-> <<>>,
               committed_inside |-> FALSE]
    /\ app = [phase |-> "idle"]

\* What no step of the driver changes.
fixedVars == <<state_trie_version, max_log_level, backing, program, app>>

(* hist records, when the runtime issues an externality: the externality   *)
(* (req), the main-trie diff and the logs at that moment (pre, logs_pre),  *)
(* the runtime's own count of open transactions (vm_tx), the diff at the   *)
(* start of each open transaction (tx_start) and, for an End, the diff at  *)
(* the matching Start (at_start); and while it is served: the number of    *)
(* statuses returned to the client (yields), whether every answer of the   *)
(* client was what the backing store holds (honest), how the last answer   *)
(* to NextKey stood against the key and prefix asked (invalid), the        *)
(* off-chain diff when the externality was issued (offchain_pre), the      *)
(* client's answer to the StorageGet of a get or an append (answer) and    *)
(* the writes of every message the runtime has emitted so far, in order    *)
(* (emitted).  When the externality before it was a main-trie clear-prefix *)
(* without limit served by a truthful client, overlay_only holds the       *)
(* entries that the diff had before that clear-prefix for keys under its   *)
(* prefix with a value in the overlay and none in the backing store.       *)
(* offchain_written is the off-chain diff that the off-chain writes issued *)
(* so far make, tx_clean whether the off-chain diff and the logs were      *)
(* empty at the Start of the outermost open transaction and, for the End   *)
(* of an outermost transaction, clean_at_start whether they were at its    *)
(* Start.  inner_commit marks, for each open transaction, whether a        *)
(* transaction directly inside it has ended with rollback=false having     *)
(* changed the diff since its own Start, and committed_inside is, for an   *)
(* End, the mark of the transaction it ends.                               *)

\* The entries of a diff for the keys under `prefix` that have a value in
\* the diff and none in the backing store.
OverlayOnly(diff, prefix) ==
    [k \in {j \in DOMAIN diff : /\ IsSome(diff[j])
                                /\ j \notin backing
                                /\ StartsWith(j, prefix)} |-> diff[k]]

\* The driver returns status `st` to the client.
Yield(st) ==
    /\ status' = st
    /\ hist' = [hist EXCEPT !.yields = @ + 1]

\* Total length of the log buffer.
RECURSIVE SumSeq(_)
SumSeq(q) == IF q = <<>> THEN 0 ELSE q[1] + SumSeq(Tail(q))

LogLen(l) == SumSeq(l)

\* The byte lengths of the writes of a message.
WriteLens(msg) == [i \in 1..Len(msg) |-> msg[i][2]]

-----------------------------------------------------------------------------
(* Inner::run, one action per arm of its loop.                             *)

\* The marks of the open transactions once the innermost one has ended:
\* its mark is dropped and, when it committed a changed diff, the enclosing
\* transaction is marked.
InnerCommitAfterEnd(marks, committed) ==
    LET rest == SubSeq(marks, 1, Len(marks) - 1)
    IN  IF committed /\ rest # <<>>
        THEN [rest EXCEPT ![Len(rest)] = TRUE]
        ELSE rest

\* HostVm::ReadyToRun(r) => self.vm = r.run(): the runtime runs up to its
\* next externality, or ends.
Run_ReadyToRun ==
    /\ status = "Running"
    /\ vm.kind = "ReadyToRun"
    /\ \E req \in ProgramRequests(program) \cup FinalRequests :
        /\ req \notin FinalRequests => hist.ops < ProgramBudget(program)
        /\ req.kind = "EndStorageTransaction" => hist.vm_tx > 0
        /\ vm' = req
        /\ hist' = [req |-> req, pre |-> main_trie_changes, yields |-> 0,
                    honest |-> TRUE,
                    ops |-> IF req \in FinalRequests THEN hist.ops ELSE hist.ops + 1,
                    vm_tx |-> IF req.kind = "StartStorageTransaction"
                              THEN hist.vm_tx + 1
                              ELSE IF req.kind = "EndStorageTransaction"
                              THEN hist.vm_tx - 1
                              ELSE hist.vm_tx,
                    tx_start |-> IF req.kind = "StartStorageTransaction"
                                 THEN Append(hist.tx_start, main_trie_changes)
                                 ELSE IF req.kind = "EndStorageTransaction"
                                 THEN SubSeq(hist.tx_start, 1, Len(hist.tx_start) - 1)
                                 ELSE hist.tx_start,
                    at_start |-> IF req.kind = "EndStorageTransaction"
                                 THEN hist.tx_start[Len(hist.tx_start)]
                                 ELSE EmptyDiff,
                    logs_pre |-> logs,
                    invalid |-> "no",
                    offchain_pre |-> offchain_storage_changes,
                    answer |-> None,
                    emitted |-> IF req.kind = "LogEmit"
                                THEN hist.emitted \o WriteLens(req.msg)
                                ELSE hist.emitted,
                    overlay_only |->
                        IF /\ hist.req.kind = "ExternalStorageClearPrefix"
                           /\ hist.req.trie = "MainTrie"
                           /\ hist.req.max_keys_to_remove = None
                           /\ hist.honest
                        THEN OverlayOnly(hist.pre, hist.req.prefix)
                        ELSE EmptyDiff,
                    offchain_written |->
                        IF req.kind # "ExternalOffchainStorageSet"
                        THEN hist.offchain_written
                        ELSE IF IsSome(req.value)
                        THEN diff_insert(hist.offchain_written, req.key, req.value[1])
                        ELSE diff_insert_erase(hist.offchain_written, req.key),
                    tx_clean |-> IF req.kind = "StartStorageTransaction"
                                    /\ hist.vm_tx = 0
                                 THEN /\ offchain_storage_changes = EmptyDiff
                                      /\ logs = <<>>
                                 ELSE IF req.kind = "EndStorageTransaction"
                                         /\ hist.vm_tx = 1
                                 THEN FALSE
                                 ELSE hist.tx_clean,
                    clean_at_start |-> /\ req.kind = "EndStorageTransaction"
                                       /\ hist.vm_tx = 1
                                       /\ hist.tx_clean,
                    inner_commit |->
                        IF req.kind = "StartStorageTransaction"
                        THEN Append(hist.inner_commit, FALSE)
                        ELSE IF req.kind = "EndStorageTransaction"
                        THEN InnerCommitAfterEnd(hist.inner_commit,
                                 /\ ~req.rollback
                                 /\ main_trie_changes # hist.tx_start[Len(hist.tx_start)])
                        ELSE hist.inner_commit,
                    committed_inside |->
                        /\ req.kind = "EndStorageTransaction"
                        /\ hist.inner_commit[Len(hist.inner_commit)]]
    /\ UNCHANGED <<main_trie_changes, main_trie_transaction, offchain_storage_changes,
                   root_calculation, logs, status, key_overwrite, keys_removed_so_far>>
    /\ UNCHANGED fixedVars

\* HostVm::Error
Run_Error ==
    /\ status = "Running"
    /\ vm.kind = "Error"
    /\ status' = "Finished(Err(WasmVm))"
    /\ vm' = [kind |-> "Prototype"]
    /\ UNCHANGED <<main_trie_changes, main_trie_transaction, offchain_storage_changes,
                   root_calculation, logs, key_overwrite, keys_removed_so_far, hist>>
    /\ UNCHANGED fixedVars

\* HostVm::Finished
Run_Finished ==
    /\ status = "Running"
    /\ vm.kind = "Finished"
    /\ status' = "Finished(Ok)"
    /\ UNCHANGED <<vm, main_trie_changes, main_trie_transaction,
                   offchain_storage_changes, root_calculation, logs, key_overwrite,
                   keys_removed_so_far, hist>>
    /\ UNCHANGED fixedVars

\* Variant: the overlay is not consulted.
ExternalStorageGet_search_NoOverlay(diff, key) == None

\* The overlay lookup of the ExternalStorageGet arm.
ExternalStorageGet_search(diff, key) == diff_get(diff, key)

\* HostVm::ExternalStorageGet
Run_ExternalStorageGet ==
    /\ status = "Running"
    /\ vm.kind = "ExternalStorageGet"
    /\ IF vm.trie # "MainTrie"
       THEN /\ vm' = Resumed(vm.kind, None)
            /\ UNCHANGED <<status, hist>>
       ELSE LET search == ExternalStorageGet_search(main_trie_changes, vm.key)
            IN  IF IsSome(search)
                THEN /\ vm' = Resumed(vm.kind, search[1])
                     /\ UNCHANGED <<status, hist>>
                ELSE /\ Yield("StorageGet")
                     /\ UNCHANGED vm
    /\ UNCHANGED <<main_trie_changes, main_trie_transaction, offchain_storage_changes,
                   root_calculation, logs, key_overwrite, keys_removed_so_far>>
    /\ UNCHANGED fixedVars

\* Variant: the write is applied whatever the trie addressed.
Run_ExternalStorageSet_AnyTrie ==
    /\ status = "Running"
    /\ vm.kind = "ExternalStorageSet"
    /\ IF IsSome(vm.value)
       THEN main_trie_changes' = diff_insert(main_trie_changes, vm.key, vm.value[1])
       ELSE main_trie_changes' = diff_insert_erase(main_trie_changes, vm.key)
    /\ vm' = Resumed(vm.kind, None)
    /\ UNCHANGED <<main_trie_transaction, offchain_storage_changes, root_calculation,
                   logs, status, key_overwrite, keys_removed_so_far, hist>>
    /\ UNCHANGED fixedVars

\* HostVm::ExternalStorageSet
Run_ExternalStorageSet ==
    /\ status = "Running"
    /\ vm.kind = "ExternalStorageSet"
    /\ IF vm.trie # "MainTrie"
       THEN UNCHANGED main_trie_changes
       ELSE IF IsSome(vm.value)
       THEN main_trie_changes' = diff_insert(main_trie_changes, vm.key, vm.value[1])
       ELSE main_trie_changes' = diff_insert_erase(main_trie_changes, vm.key)
    /\ vm' = Resumed(vm.kind, None)
    /\ UNCHANGED <<main_trie_transaction, offchain_storage_changes, root_calculation,
                   logs, status, key_overwrite, keys_removed_so_far, hist>>
    /\ UNCHANGED fixedVars

\* Option::unwrap_or_default on an Option<bytes>.
UnwrapOrDefault(o) == IF IsSome(o) THEN o[1] ELSE <<>>

\* HostVm::ExternalStorageAppend
Run_ExternalStorageAppend ==
    /\ status = "Running"
    /\ vm.kind = "ExternalStorageAppend"
    /\ IF vm.trie # "MainTrie"
       THEN /\ vm' = Resumed(vm.kind, None)
            /\ UNCHANGED <<main_trie_changes, status, hist>>
       ELSE LET current_value == diff_get(main_trie_changes, vm.key)
            IN  IF IsSome(current_value)
                THEN \E build \in Builds :
                     LET r == append_to_storage_value(
                                  UnwrapOrDefault(current_value[1]), vm.to_add, build)
                     IN  IF r.panic
                         THEN /\ status' = "Panicked"
                              /\ UNCHANGED <<vm, main_trie_changes, hist>>
                         ELSE /\ main_trie_changes' =
                                     diff_insert(main_trie_changes, vm.key, r.value)
                              /\ vm' = Resumed(vm.kind, None)
                              /\ UNCHANGED <<status, hist>>
                ELSE /\ Yield("StorageGet")
                     /\ UNCHANGED <<vm, main_trie_changes>>
    /\ UNCHANGED <<main_trie_transaction, offchain_storage_changes, root_calculation,
                   logs, key_overwrite, keys_removed_so_far>>
    /\ UNCHANGED fixedVars

\* Variant: the NextKey handle is built without key_overwrite.
Run_ExternalStorageClearPrefix_NoOverwrite ==
    /\ status = "Running"
    /\ vm.kind = "ExternalStorageClearPrefix"
    /\ IF vm.trie # "MainTrie"
       THEN /\ vm' = Resumed(vm.kind, <<0, FALSE>>)
            /\ UNCHANGED <<status, hist, key_overwrite, keys_removed_so_far>>
       ELSE /\ Yield("NextKey")
            /\ key_overwrite' = None
            /\ keys_removed_so_far' = 0
            /\ UNCHANGED vm
    /\ UNCHANGED <<main_trie_changes, main_trie_transaction, offchain_storage_changes,
                   root_calculation, logs>>
    /\ UNCHANGED fixedVars

\* HostVm::ExternalStorageClearPrefix
Run_ExternalStorageClearPrefix ==
    /\ status = "Running"
    /\ vm.kind = "ExternalStorageClearPrefix"
    /\ IF vm.trie # "MainTrie"
       THEN /\ vm' = Resumed(vm.kind, <<0, FALSE>>)
            /\ UNCHANGED <<status, hist, key_overwrite, keys_removed_so_far>>
       ELSE /\ Yield("NextKey")
            /\ key_overwrite' = Some(vm.prefix)
            /\ keys_removed_so_far' = 0
            /\ UNCHANGED vm
    /\ UNCHANGED <<main_trie_changes, main_trie_transaction, offchain_storage_changes,
                   root_calculation, logs>>
    /\ UNCHANGED fixedVars

\* Variant: the client is asked whatever the number of nibbles.
StorageValue_key_even_Always(key) == TRUE

\* The number of nibbles of the key the calculator asks the value of is even.
StorageValue_key_even(key) == Len(key) % 2 = 0

\* Variant: the finished calculation is put back.
RootCalculation_take_PutsBack(calc) == Some(calc)

\* What self.root_calculation.take() leaves in the field when the
\* calculation taken is Finished and nothing is put back.
RootCalculation_take(calc) == None

\* max_trie_recalculation_depth_hint of the calculator's Config.
max_trie_recalculation_depth_hint == 16

\* Variant: a calculator is built at every entry of the arm.
RootCalculation_or_new_AlwaysNew(calculation, diff, version) ==
    trie_root_calculator(diff, version, max_trie_recalculation_depth_hint)

\* The calculation the ExternalStorageRoot arm goes on with: the one in
\* flight, or if there is none a new one built from a clone of the diff, the
\* state-trie version and the depth hint.
RootCalculation_or_new(calculation, diff, version) ==
    IF calculation = None
    THEN trie_root_calculator(diff, version, max_trie_recalculation_depth_hint)
    ELSE {calculation[1]}

\* HostVm::ExternalStorageRoot
Run_ExternalStorageRoot ==
    /\ status = "Running"
    /\ vm.kind = "ExternalStorageRoot"
    /\ IF vm.trie # "MainTrie"
       THEN /\ vm' = Resumed(vm.kind, None)
            /\ UNCHANGED <<root_calculation, status, hist>>
       ELSE \E calc \in RootCalculation_or_new(root_calculation, main_trie_changes,
                                                state_trie_version) :
              CASE calc.state = "ClosestDescendant" ->
                     /\ root_calculation' = Some(calc)
                     /\ Yield("NextKey")
                     /\ UNCHANGED vm
                [] calc.state = "StorageValue" ->
                     IF StorageValue_key_even(calc.key)
                     THEN /\ root_calculation' = Some(calc)
                          /\ Yield("StorageGet")
                          /\ UNCHANGED vm
                     ELSE /\ \E next \in CalcAdvance(calc, FedValue(calc.key, None)) :
                                root_calculation' = Some(next)
                          /\ UNCHANGED <<vm, status, hist>>
                [] calc.state = "ClosestDescendantMerkleValue" ->
                     /\ root_calculation' = Some(calc)
                     /\ Yield("ClosestDescendantMerkleValue")
                     /\ UNCHANGED vm
                [] calc.state = "Finished" ->
                     /\ vm' = Resumed(vm.kind, Some(RootHash(calc)))
                     /\ root_calculation' = RootCalculation_take(calc)
                     /\ UNCHANGED <<status, hist>>
    /\ key_overwrite' = None
    /\ keys_removed_so_far' = 0
    /\ UNCHANGED <<main_trie_changes, main_trie_transaction, offchain_storage_changes,
                   logs>>
    /\ UNCHANGED fixedVars

\* HostVm::ExternalStorageNextKey
Run_ExternalStorageNextKey ==
    /\ status = "Running"
    /\ vm.kind = "ExternalStorageNextKey"
    /\ IF vm.trie = "MainTrie"
       THEN /\ Yield("NextKey")
            /\ UNCHANGED vm
       ELSE /\ vm' = Resumed(vm.kind, None)
            /\ UNCHANGED <<status, hist>>
    /\ key_overwrite' = None
    /\ keys_removed_so_far' = 0
    /\ UNCHANGED <<main_trie_changes, main_trie_transaction, offchain_storage_changes,
                   root_calculation, logs>>
    /\ UNCHANGED fixedVars

\* HostVm::ExternalOffchainStorageSet
Run_ExternalOffchainStorageSet ==
    /\ status = "Running"
    /\ vm.kind = "ExternalOffchainStorageSet"
    /\ IF IsSome(vm.value)
       THEN offchain_storage_changes' =
                diff_insert(offchain_storage_changes, vm.key, vm.value[1])
       ELSE offchain_storage_changes' =
                diff_insert_erase(offchain_storage_changes, vm.key)
    /\ vm' = Resumed(vm.kind, None)
    /\ UNCHANGED <<main_trie_changes, main_trie_transaction, root_calculation, logs,
                   status, key_overwrite, keys_removed_so_far, hist>>
    /\ UNCHANGED fixedVars

\* HostVm::SignatureVerification
Run_SignatureVerification ==
    /\ status = "Running"
    /\ vm.kind = "SignatureVerification"
    /\ Yield("SignatureVerification")
    /\ UNCHANGED <<vm, main_trie_changes, main_trie_transaction,
                   offchain_storage_changes, root_calculation, logs, key_overwrite,
                   keys_removed_so_far>>
    /\ UNCHANGED fixedVars

\* HostVm::CallRuntimeVersion
Run_CallRuntimeVersion ==
    /\ status = "Running"
    /\ vm.kind = "CallRuntimeVersion"
    /\ vm' = Resumed(vm.kind, IF vm.wasm_code_ok THEN Some("runtime_version") ELSE None)
    /\ UNCHANGED <<main_trie_changes, main_trie_transaction, offchain_storage_changes,
                   root_calculation, logs, status, key_overwrite, keys_removed_so_far,
                   hist>>
    /\ UNCHANGED fixedVars

\* Variant: a single snapshot slot instead of a stack.
StartStorageTransaction_push_OneSlot(stack, diff) == <<diff>>

\* The push of the StartStorageTransaction arm: a clone of the diff.
StartStorageTransaction_push(stack, diff) == Append(stack, diff)

\* HostVm::StartStorageTransaction
Run_StartStorageTransaction ==
    /\ status = "Running"
    /\ vm.kind = "StartStorageTransaction"
    /\ main_trie_transaction' =
           StartStorageTransaction_push(main_trie_transaction, main_trie_changes)
    /\ vm' = Resumed(vm.kind, None)
    /\ UNCHANGED <<main_trie_changes, offchain_storage_changes, root_calculation, logs,
                   status, key_overwrite, keys_removed_so_far, hist>>
    /\ UNCHANGED fixedVars

\* Variant: the snapshot is dropped whatever `rollback` says.
EndStorageTransaction_diff_NeverRestores(rollback, rollback_diff, current) == current

\* Variant: the snapshot is written back whatever `rollback` says.
EndStorageTransaction_diff_AlwaysRestores(rollback, rollback_diff, current) ==
    rollback_diff

\* The main-trie diff after the EndStorageTransaction arm.
EndStorageTransaction_diff(rollback, rollback_diff, current) ==
    IF rollback THEN rollback_diff ELSE current

\* Variant: the End drops every open snapshot.
EndStorageTransaction_pop_DropsAll(stack) == <<>>

\* The stack after self.main_trie_transaction.pop().
EndStorageTransaction_pop(stack) == SubSeq(stack, 1, Len(stack) - 1)

\* Variant: a rollback also drops the off-chain writes.
Run_EndStorageTransaction_DropsOffchain ==
    /\ status = "Running"
    /\ vm.kind = "EndStorageTransaction"
    /\ IF main_trie_transaction = <<>>
       THEN /\ status' = "Panicked"
            /\ UNCHANGED <<vm, main_trie_changes, main_trie_transaction>>
       ELSE LET rollback_diff == main_trie_transaction[Len(main_trie_transaction)]
            IN  /\ main_trie_transaction' =
                       EndStorageTransaction_pop(main_trie_transaction)
                /\ main_trie_changes' =
                       EndStorageTransaction_diff(vm.rollback, rollback_diff,
                                                  main_trie_changes)
                /\ vm' = Resumed(vm.kind, None)
                /\ UNCHANGED status
    /\ offchain_storage_changes' =
           (IF vm.rollback THEN EmptyDiff ELSE offchain_storage_changes)
    /\ UNCHANGED <<root_calculation, logs, key_overwrite, keys_removed_so_far, hist>>
    /\ UNCHANGED fixedVars

\* Variant: a commit also overwrites the snapshots of the enclosing
\* transactions with the committed diff.
Run_EndStorageTransaction_CommitsThrough ==
    /\ status = "Running"
    /\ vm.kind = "EndStorageTransaction"
    /\ IF main_trie_transaction = <<>>
       THEN /\ status' = "Panicked"
            /\ UNCHANGED <<vm, main_trie_changes, main_trie_transaction>>
       ELSE LET rollback_diff == main_trie_transaction[Len(main_trie_transaction)]
                rest == EndStorageTransaction_pop(main_trie_transaction)
            IN  /\ main_trie_transaction' =
                       (IF vm.rollback
                        THEN rest
                        ELSE [i \in DOMAIN rest |-> main_trie_changes])
                /\ main_trie_changes' =
                       EndStorageTransaction_diff(vm.rollback, rollback_diff,
                                                  main_trie_changes)
                /\ vm' = Resumed(vm.kind, None)
                /\ UNCHANGED status
    /\ UNCHANGED <<offchain_storage_changes, root_calculation, logs, key_overwrite,
                   keys_removed_so_far, hist>>
    /\ UNCHANGED fixedVars

\* HostVm::EndStorageTransaction { resume, rollback }
Run_EndStorageTransaction ==
    /\ status = "Running"
    /\ vm.kind = "EndStorageTransaction"
    /\ IF main_trie_transaction = <<>>
       THEN /\ status' = "Panicked"
            /\ UNCHANGED <<vm, main_trie_changes, main_trie_transaction>>
       ELSE LET rollback_diff == main_trie_transaction[Len(main_trie_transaction)]
            IN  /\ main_trie_transaction' =
                       EndStorageTransaction_pop(main_trie_transaction)
                /\ main_trie_changes' =
                       EndStorageTransaction_diff(vm.rollback, rollback_diff,
                                                  main_trie_changes)
                /\ vm' = Resumed(vm.kind, None)
                /\ UNCHANGED status
    /\ UNCHANGED <<offchain_storage_changes, root_calculation, logs, key_overwrite,
                   keys_removed_so_far, hist>>
    /\ UNCHANGED fixedVars

\* HostVm::GetMaxLogLevel
Run_GetMaxLogLevel ==
    /\ status = "Running"
    /\ vm.kind = "GetMaxLogLevel"
    /\ vm' = Resumed(vm.kind, max_log_level)
    /\ UNCHANGED <<main_trie_changes, main_trie_transaction, offchain_storage_changes,
                   root_calculation, logs, status, key_overwrite, keys_removed_so_far,
                   hist>>
    /\ UNCHANGED fixedVars

\* Variant: the limit itself is still accepted (`>` for `>=`).
WriterWithMax_write_OffByOne(buf, w) ==
    IF SumSeq(buf) + (IF w[1] = "str" THEN w[2] ELSE 1) > LogCap
    THEN [ok |-> FALSE, buf |-> buf]
    ELSE [ok |-> TRUE, buf |-> Append(buf, w[2])]

\* Variant: an accepted write replaces the buffer.
WriterWithMax_write_Replaces(buf, w) ==
    IF LogLen(buf) + (IF w[1] = "str" THEN w[2] ELSE 1) >= LogCap
    THEN [ok |-> FALSE, buf |-> buf]
    ELSE [ok |-> TRUE, buf |-> <<w[2]>>]

\* WriterWithMax::write_str and write_char: [ok, buf].  write_str counts the
\* bytes of the slice, write_char counts one byte and pushes the character.
WriterWithMax_write(buf, w) ==
    IF LogLen(buf) + (IF w[1] = "str" THEN w[2] ELSE 1) >= LogCap
    THEN [ok |-> FALSE, buf |-> buf]
    ELSE [ok |-> TRUE, buf |-> Append(buf, w[2])]

\* fmt::write: the writes of the message in order, stopping at the first
\* one that fails.
RECURSIVE fmt_write(_, _)
fmt_write(buf, msg) ==
    IF msg = <<>> THEN [ok |-> TRUE, buf |-> buf]
    ELSE LET r == WriterWithMax_write(buf, msg[1])
         IN  IF r.ok THEN fmt_write(r.buf, Tail(msg)) ELSE r

\* HostVm::LogEmit
Run_LogEmit ==
    /\ status = "Running"
    /\ vm.kind = "LogEmit"
    /\ LET r == fmt_write(logs, vm.msg)
       IN  IF r.ok
           THEN /\ logs' = r.buf
                /\ vm' = Resumed(vm.kind, None)
                /\ UNCHANGED status
           ELSE /\ logs' = r.buf
                /\ vm' = [kind |-> "Prototype"]
                /\ status' = "Finished(Err(LogsTooLong))"
    /\ UNCHANGED <<main_trie_changes, main_trie_transaction, offchain_storage_changes,
                   root_calculation, key_overwrite, keys_removed_so_far, hist>>
    /\ UNCHANGED fixedVars


-----------------------------------------------------------------------------
(* The suspension handles and their re-entry methods.                      *)

\* Marker for a branch the code holds unreachable.
Unreachable == <<-1>>

\* StorageGet::key
StorageGet_key ==
    IF vm.kind \in {"ExternalStorageGet", "ExternalStorageAppend"} THEN vm.key
    ELSE IF vm.kind = "ExternalStorageRoot" /\ IsSome(root_calculation)
            /\ root_calculation[1].state = "StorageValue"
    THEN nibbles_to_bytes_suffix_extend(root_calculation[1].key)
    ELSE Unreachable

\* NextKey::key
NextKey_key ==
    IF IsSome(key_overwrite) THEN bytes_to_nibbles(key_overwrite[1])
    ELSE IF vm.kind = "ExternalStorageNextKey" THEN bytes_to_nibbles(vm.key)
    ELSE IF vm.kind = "ExternalStorageRoot" /\ IsSome(root_calculation)
            /\ root_calculation[1].state = "ClosestDescendant"
    THEN root_calculation[1].key
    ELSE Unreachable

\* Variant: or_equal during the whole of a clear-prefix, whatever the number
\* of keys already removed.
NextKey_or_equal_WhileClearing ==
    \/ vm.kind = "ExternalStorageClearPrefix"
    \/ vm.kind = "ExternalStorageRoot"

\* NextKey::or_equal
NextKey_or_equal ==
    \/ (vm.kind = "ExternalStorageClearPrefix" /\ keys_removed_so_far = 0)
    \/ vm.kind = "ExternalStorageRoot"

\* NextKey::branch_nodes
NextKey_branch_nodes == vm.kind = "ExternalStorageRoot"

\* NextKey::prefix
NextKey_prefix ==
    IF vm.kind = "ExternalStorageClearPrefix" THEN bytes_to_nibbles(vm.prefix)
    ELSE IF vm.kind = "ExternalStorageRoot" THEN NextKey_key
    ELSE <<>>

\* What a client that reads the backing store answers to StorageGet.
TruthfulValue(key) ==
    IF key \in backing
    THEN Some(<<BackingValue(key), IF key = K3 THEN "V1" ELSE "V0">>)
    ELSE None

\* What a client that walks the backing store's keys answers to NextKey.
TruthfulNextKey ==
    LET cands == {n \in {bytes_to_nibbles(k) : k \in backing} :
                     /\ StartsWith(n, NextKey_prefix)
                     /\ IF NextKey_or_equal THEN SeqLeq(NextKey_key, n)
                                            ELSE SeqLess(NextKey_key, n)}
    IN  IF cands = {} THEN None ELSE Some(MinSeq(cands))

\* How an answer to NextKey stands against what the handle advertises:
\* "prefix" when it is a key that does not start with prefix(), "order" when
\* it starts with it but is not after key() (or before it, with or_equal),
\* "no" when it is None or a key that respects both.
AnswerCheck(key) ==
    IF ~IsSome(key) THEN "no"
    ELSE IF ~StartsWith(key[1], NextKey_prefix) THEN "prefix"
    ELSE IF (IF NextKey_or_equal THEN SeqLeq(NextKey_key, key[1])
                                 ELSE SeqLess(NextKey_key, key[1]))
    THEN "no"
    ELSE "order"

\* ClosestDescendant::inject: the calculator refuses a key that does not
\* respect what was asked.
ClosestDescendant_inject_panics(key) == AnswerCheck(key) # "no"

\* Variant: an absent value is handed over as an empty one.
resume_full_value_EmptyForNone(value) ==
    IF IsSome(value) THEN Some(value[1][1]) ELSE Some(<<>>)

\* req.resume_full_value(value.as_ref().map(|(v, _)| &v[..])): the bytes of
\* the client's value, without its version, or None.
resume_full_value(value) ==
    IF IsSome(value) THEN Some(value[1][1]) ELSE None

\* Variant: the element is appended to an empty value whatever the client
\* answered.
inject_value_unwrap_or_default_AlwaysDefault(value) == <<>>

\* value.map(|(v, _)| v).unwrap_or_default(): the bytes of the client's
\* value, or no bytes for None.
inject_value_unwrap_or_default(value) ==
    IF IsSome(value) THEN value[1][1] ELSE <<>>

\* Variant: a value fetched for the root calculation is kept in the overlay.
StorageGet_inject_value_KeepsRootValue(value) ==
    /\ status = "StorageGet"
    /\ hist' = [hist EXCEPT !.honest = @ /\ (value = TruthfulValue(StorageGet_key)),
                             !.answer = IF vm.kind \in {"ExternalStorageGet",
                                                        "ExternalStorageAppend"}
                                        THEN Some(value) ELSE @]
    /\ CASE vm.kind = "ExternalStorageGet" ->
              /\ vm' = Resumed(vm.kind, resume_full_value(value))
              /\ status' = "Running"
              /\ UNCHANGED <<main_trie_changes, root_calculation>>
         [] vm.kind = "ExternalStorageAppend" ->
              \E build \in Builds :
              LET r == append_to_storage_value(
                           inject_value_unwrap_or_default(value), vm.to_add, build)
              IN  IF r.panic
                  THEN /\ status' = "Panicked"
                       /\ UNCHANGED <<vm, main_trie_changes, root_calculation>>
                  ELSE /\ main_trie_changes' =
                              diff_insert(main_trie_changes, vm.key, r.value)
                       /\ vm' = Resumed(vm.kind, None)
                       /\ status' = "Running"
                       /\ UNCHANGED root_calculation
         [] vm.kind = "ExternalStorageRoot" ->
              IF IsSome(root_calculation) /\ root_calculation[1].state = "StorageValue"
              THEN /\ \E next \in CalcAdvance(root_calculation[1],
                                              FedValue(root_calculation[1].key, value)) :
                         root_calculation' = Some(next)
                   /\ status' = "Running"
                   /\ main_trie_changes' =
                          (IF IsSome(value)
                           THEN diff_insert(main_trie_changes, StorageGet_key,
                                            value[1][1])
                           ELSE main_trie_changes)
                   /\ UNCHANGED vm
              ELSE /\ status' = "Panicked"
                   /\ UNCHANGED <<vm, main_trie_changes, root_calculation>>
         [] OTHER ->
              /\ status' = "Panicked"
              /\ UNCHANGED <<vm, main_trie_changes, root_calculation>>
    /\ UNCHANGED <<main_trie_transaction, offchain_storage_changes, logs, key_overwrite,
                   keys_removed_so_far>>
    /\ UNCHANGED fixedVars

\* StorageGet::inject_value
StorageGet_inject_value(value) ==
    /\ status = "StorageGet"
    /\ hist' = [hist EXCEPT !.honest = @ /\ (value = TruthfulValue(StorageGet_key)),
                             !.answer = IF vm.kind \in {"ExternalStorageGet",
                                                        "ExternalStorageAppend"}
                                        THEN Some(value) ELSE @]
    /\ CASE vm.kind = "ExternalStorageGet" ->
              /\ vm' = Resumed(vm.kind, resume_full_value(value))
              /\ status' = "Running"
              /\ UNCHANGED <<main_trie_changes, root_calculation>>
         [] vm.kind = "ExternalStorageAppend" ->
              \E build \in Builds :
              LET r == append_to_storage_value(
                           inject_value_unwrap_or_default(value), vm.to_add, build)
              IN  IF r.panic
                  THEN /\ status' = "Panicked"
                       /\ UNCHANGED <<vm, main_trie_changes, root_calculation>>
                  ELSE /\ main_trie_changes' =
                              diff_insert(main_trie_changes, vm.key, r.value)
                       /\ vm' = Resumed(vm.kind, None)
                       /\ status' = "Running"
                       /\ UNCHANGED root_calculation
         [] vm.kind = "ExternalStorageRoot" ->
              IF IsSome(root_calculation) /\ root_calculation[1].state = "StorageValue"
              THEN /\ \E next \in CalcAdvance(root_calculation[1],
                                              FedValue(root_calculation[1].key, value)) :
                         root_calculation' = Some(next)
                   /\ status' = "Running"
                   /\ UNCHANGED <<vm, main_trie_changes>>
              ELSE /\ status' = "Panicked"
                   /\ UNCHANGED <<vm, main_trie_changes, root_calculation>>
         [] OTHER ->
              /\ status' = "Panicked"
              /\ UNCHANGED <<vm, main_trie_changes, root_calculation>>
    /\ UNCHANGED <<main_trie_transaction, offchain_storage_changes, logs, key_overwrite,
                   keys_removed_so_far>>
    /\ UNCHANGED fixedVars

\* Variant: the overlay is always searched from the key of the runtime's
\* request, whatever key_overwrite holds.
InjectKey_NextKey_IgnoresOverwrite(key) ==
    LET k == IF IsSome(key) THEN Some(nibbles_to_bytes_suffix_extend(key[1])) ELSE None
        requested_key == vm.key
        search == storage_next_key(main_trie_changes, requested_key, k)
    IN  IF search.panic
        THEN /\ status' = "Panicked"
             /\ UNCHANGED <<vm, key_overwrite, keys_removed_so_far>>
             /\ hist' = [hist EXCEPT !.honest = @ /\ (key = TruthfulNextKey),
                                     !.invalid = AnswerCheck(key)]
        ELSE IF search.found
        THEN /\ vm' = Resumed(vm.kind, search.key)
             /\ status' = "Running"
             /\ key_overwrite' = None
             /\ keys_removed_so_far' = 0
             /\ hist' = [hist EXCEPT !.honest = @ /\ (key = TruthfulNextKey),
                                     !.invalid = AnswerCheck(key)]
        ELSE /\ UNCHANGED vm
             /\ status' = "NextKey"
             /\ key_overwrite' = search.key
             /\ keys_removed_so_far' = 0
             /\ hist' = [hist EXCEPT !.honest = @ /\ (key = TruthfulNextKey),
                                     !.invalid = AnswerCheck(key),
                                     !.yields = @ + 1]

\* Variant: on NextOf the runtime is told there is no next key, and the
\* client is not asked again.
InjectKey_NextKey_NoRequery(key) ==
    LET k == IF IsSome(key) THEN Some(nibbles_to_bytes_suffix_extend(key[1])) ELSE None
        requested_key == IF IsSome(key_overwrite) THEN key_overwrite[1] ELSE vm.key
        search == storage_next_key(main_trie_changes, requested_key, k)
    IN  IF search.panic
        THEN /\ status' = "Panicked"
             /\ UNCHANGED <<vm, key_overwrite, keys_removed_so_far>>
             /\ hist' = [hist EXCEPT !.honest = @ /\ (key = TruthfulNextKey),
                                     !.invalid = AnswerCheck(key)]
        ELSE /\ vm' = Resumed(vm.kind, IF search.found THEN search.key ELSE None)
             /\ status' = "Running"
             /\ key_overwrite' = None
             /\ keys_removed_so_far' = 0
             /\ hist' = [hist EXCEPT !.honest = @ /\ (key = TruthfulNextKey),
                                     !.invalid = AnswerCheck(key)]

\* Variant: the client's key is handed to the runtime without a look at the
\* overlay.
InjectKey_NextKey_NoOverlay(key) ==
    /\ vm' = Resumed(vm.kind,
                     IF IsSome(key) THEN Some(nibbles_to_bytes_suffix_extend(key[1]))
                     ELSE None)
    /\ status' = "Running"
    /\ key_overwrite' = None
    /\ keys_removed_so_far' = 0
    /\ hist' = [hist EXCEPT !.honest = @ /\ (key = TruthfulNextKey),
                                     !.invalid = AnswerCheck(key)]

\* NextKey::inject_key, in the ExternalStorageNextKey case.
InjectKey_NextKey(key) ==
    LET k == IF IsSome(key) THEN Some(nibbles_to_bytes_suffix_extend(key[1])) ELSE None
        requested_key == IF IsSome(key_overwrite) THEN key_overwrite[1] ELSE vm.key
        search == storage_next_key(main_trie_changes, requested_key, k)
    IN  IF search.panic
        THEN /\ status' = "Panicked"
             /\ UNCHANGED <<vm, key_overwrite, keys_removed_so_far>>
             /\ hist' = [hist EXCEPT !.honest = @ /\ (key = TruthfulNextKey),
                                     !.invalid = AnswerCheck(key)]
        ELSE IF search.found
        THEN /\ vm' = Resumed(vm.kind, search.key)
             /\ status' = "Running"
             /\ key_overwrite' = None
             /\ keys_removed_so_far' = 0
             /\ hist' = [hist EXCEPT !.honest = @ /\ (key = TruthfulNextKey),
                                     !.invalid = AnswerCheck(key)]
        ELSE /\ UNCHANGED vm
             /\ status' = "NextKey"
             /\ key_overwrite' = search.key
             /\ keys_removed_so_far' = 0
             /\ hist' = [hist EXCEPT !.honest = @ /\ (key = TruthfulNextKey),
                                     !.invalid = AnswerCheck(key),
                                     !.yields = @ + 1]

\* Variant: the erased key does not become the key asked next.
InjectKey_ClearPrefix_KeepsKey(key) ==
    IF IsSome(key)
    THEN LET k == nibbles_to_bytes_suffix_extend(key[1])
         IN  IF ~StartsWith(k, vm.prefix)
             THEN /\ status' = "Panicked"
                  /\ UNCHANGED <<vm, main_trie_changes, key_overwrite,
                                 keys_removed_so_far>>
                  /\ hist' = [hist EXCEPT !.honest = @ /\ (key = TruthfulNextKey),
                                     !.invalid = AnswerCheck(key)]
             ELSE IF IsSome(vm.max_keys_to_remove)
                     /\ keys_removed_so_far >= vm.max_keys_to_remove[1]
             THEN /\ vm' = Resumed(vm.kind, <<keys_removed_so_far, TRUE>>)
                  /\ status' = "Running"
                  /\ key_overwrite' = None
                  /\ keys_removed_so_far' = 0
                  /\ UNCHANGED main_trie_changes
                  /\ hist' = [hist EXCEPT !.honest = @ /\ (key = TruthfulNextKey),
                                     !.invalid = AnswerCheck(key)]
             ELSE /\ main_trie_changes' = diff_insert_erase(main_trie_changes, k)
                  /\ keys_removed_so_far' = keys_removed_so_far + 1
                  /\ UNCHANGED key_overwrite
                  /\ status' = "NextKey"
                  /\ UNCHANGED vm
                  /\ hist' = [hist EXCEPT !.honest = @ /\ (key = TruthfulNextKey),
                                     !.invalid = AnswerCheck(key),
                                          !.yields = @ + 1]
    ELSE /\ vm' = Resumed(vm.kind, <<keys_removed_so_far, FALSE>>)
         /\ status' = "Running"
         /\ key_overwrite' = None
         /\ keys_removed_so_far' = 0
         /\ UNCHANGED main_trie_changes
         /\ hist' = [hist EXCEPT !.honest = @ /\ (key = TruthfulNextKey),
                                     !.invalid = AnswerCheck(key)]

\* Variant: the limit is compared with `>` for `>=`.
InjectKey_ClearPrefix_OneMore(key) ==
    IF IsSome(key)
    THEN LET k == nibbles_to_bytes_suffix_extend(key[1])
         IN  IF ~StartsWith(k, vm.prefix)
             THEN /\ status' = "Panicked"
                  /\ UNCHANGED <<vm, main_trie_changes, key_overwrite,
                                 keys_removed_so_far>>
                  /\ hist' = [hist EXCEPT !.honest = @ /\ (key = TruthfulNextKey),
                                     !.invalid = AnswerCheck(key)]
             ELSE IF IsSome(vm.max_keys_to_remove)
                     /\ keys_removed_so_far > vm.max_keys_to_remove[1]
             THEN /\ vm' = Resumed(vm.kind, <<keys_removed_so_far, TRUE>>)
                  /\ status' = "Running"
                  /\ key_overwrite' = None
                  /\ keys_removed_so_far' = 0
                  /\ UNCHANGED main_trie_changes
                  /\ hist' = [hist EXCEPT !.honest = @ /\ (key = TruthfulNextKey),
                                     !.invalid = AnswerCheck(key)]
             ELSE /\ main_trie_changes' = diff_insert_erase(main_trie_changes, k)
                  /\ keys_removed_so_far' = keys_removed_so_far + 1
                  /\ key_overwrite' = Some(k)
                  /\ status' = "NextKey"
                  /\ UNCHANGED vm
                  /\ hist' = [hist EXCEPT !.honest = @ /\ (key = TruthfulNextKey),
                                     !.invalid = AnswerCheck(key),
                                          !.yields = @ + 1]
    ELSE /\ vm' = Resumed(vm.kind, <<keys_removed_so_far, FALSE>>)
         /\ status' = "Running"
         /\ key_overwrite' = None
         /\ keys_removed_so_far' = 0
         /\ UNCHANGED main_trie_changes
         /\ hist' = [hist EXCEPT !.honest = @ /\ (key = TruthfulNextKey),
                                     !.invalid = AnswerCheck(key)]

\* Variant: at the end of the walk the keys of the overlay under the prefix
\* are erased as well.
InjectKey_ClearPrefix_ClearsOverlay(key) ==
    IF IsSome(key)
    THEN LET k == nibbles_to_bytes_suffix_extend(key[1])
         IN  IF ~StartsWith(k, vm.prefix)
             THEN /\ status' = "Panicked"
                  /\ UNCHANGED <<vm, main_trie_changes, key_overwrite,
                                 keys_removed_so_far>>
                  /\ hist' = [hist EXCEPT !.honest = @ /\ (key = TruthfulNextKey),
                                     !.invalid = AnswerCheck(key)]
             ELSE IF IsSome(vm.max_keys_to_remove)
                     /\ keys_removed_so_far >= vm.max_keys_to_remove[1]
             THEN /\ vm' = Resumed(vm.kind, <<keys_removed_so_far, TRUE>>)
                  /\ status' = "Running"
                  /\ key_overwrite' = None
                  /\ keys_removed_so_far' = 0
                  /\ UNCHANGED main_trie_changes
                  /\ hist' = [hist EXCEPT !.honest = @ /\ (key = TruthfulNextKey),
                                     !.invalid = AnswerCheck(key)]
             ELSE /\ main_trie_changes' = diff_insert_erase(main_trie_changes, k)
                  /\ keys_removed_so_far' = keys_removed_so_far + 1
                  /\ key_overwrite' = Some(k)
                  /\ status' = "NextKey"
                  /\ UNCHANGED vm
                  /\ hist' = [hist EXCEPT !.honest = @ /\ (key = TruthfulNextKey),
                                     !.invalid = AnswerCheck(key),
                                          !.yields = @ + 1]
    ELSE /\ vm' = Resumed(vm.kind, <<keys_removed_so_far, FALSE>>)
         /\ status' = "Running"
         /\ key_overwrite' = None
         /\ keys_removed_so_far' = 0
         /\ main_trie_changes' =
                [k \in DOMAIN main_trie_changes |->
                    IF StartsWith(k, vm.prefix) THEN None ELSE main_trie_changes[k]]
         /\ hist' = [hist EXCEPT !.honest = @ /\ (key = TruthfulNextKey),
                                     !.invalid = AnswerCheck(key)]

\* Variant: after an erasure the walk is asked again from the prefix.
InjectKey_ClearPrefix_AsksPrefixAgain(key) ==
    IF IsSome(key)
    THEN LET k == nibbles_to_bytes_suffix_extend(key[1])
         IN  IF ~StartsWith(k, vm.prefix)
             THEN /\ status' = "Panicked"
                  /\ UNCHANGED <<vm, main_trie_changes, key_overwrite,
                                 keys_removed_so_far>>
                  /\ hist' = [hist EXCEPT !.honest = @ /\ (key = TruthfulNextKey),
                                     !.invalid = AnswerCheck(key)]
             ELSE IF IsSome(vm.max_keys_to_remove)
                     /\ keys_removed_so_far >= vm.max_keys_to_remove[1]
             THEN /\ vm' = Resumed(vm.kind, <<keys_removed_so_far, TRUE>>)
                  /\ status' = "Running"
                  /\ key_overwrite' = None
                  /\ keys_removed_so_far' = 0
                  /\ UNCHANGED main_trie_changes
                  /\ hist' = [hist EXCEPT !.honest = @ /\ (key = TruthfulNextKey),
                                     !.invalid = AnswerCheck(key)]
             ELSE /\ main_trie_changes' = diff_insert_erase(main_trie_changes, k)
                  /\ keys_removed_so_far' = keys_removed_so_far + 1
                  /\ key_overwrite' = Some(vm.prefix)
                  /\ status' = "NextKey"
                  /\ UNCHANGED vm
                  /\ hist' = [hist EXCEPT !.honest = @ /\ (key = TruthfulNextKey),
                                     !.invalid = AnswerCheck(key),
                                          !.yields = @ + 1]
    ELSE /\ vm' = Resumed(vm.kind, <<keys_removed_so_far, FALSE>>)
         /\ status' = "Running"
         /\ key_overwrite' = None
         /\ keys_removed_so_far' = 0
         /\ UNCHANGED main_trie_changes
         /\ hist' = [hist EXCEPT !.honest = @ /\ (key = TruthfulNextKey),
                                     !.invalid = AnswerCheck(key)]

\* Variant: a key the overlay already erases is not counted.
InjectKey_ClearPrefix_SkipsErased(key) ==
    IF IsSome(key)
    THEN LET k == nibbles_to_bytes_suffix_extend(key[1])
         IN  IF ~StartsWith(k, vm.prefix)
             THEN /\ status' = "Panicked"
                  /\ UNCHANGED <<vm, main_trie_changes, key_overwrite,
                                 keys_removed_so_far>>
                  /\ hist' = [hist EXCEPT !.honest = @ /\ (key = TruthfulNextKey),
                                     !.invalid = AnswerCheck(key)]
             ELSE IF IsSome(vm.max_keys_to_remove)
                     /\ keys_removed_so_far >= vm.max_keys_to_remove[1]
             THEN /\ vm' = Resumed(vm.kind, <<keys_removed_so_far, TRUE>>)
                  /\ status' = "Running"
                  /\ key_overwrite' = None
                  /\ keys_removed_so_far' = 0
                  /\ UNCHANGED main_trie_changes
                  /\ hist' = [hist EXCEPT !.honest = @ /\ (key = TruthfulNextKey),
                                     !.invalid = AnswerCheck(key)]
             ELSE /\ main_trie_changes' = diff_insert_erase(main_trie_changes, k)
                  /\ keys_removed_so_far' =
                         (IF diff_get(main_trie_changes, k) = Some(None)
                          THEN keys_removed_so_far
                          ELSE keys_removed_so_far + 1)
                  /\ key_overwrite' = Some(k)
                  /\ status' = "NextKey"
                  /\ UNCHANGED vm
                  /\ hist' = [hist EXCEPT !.honest = @ /\ (key = TruthfulNextKey),
                                     !.invalid = AnswerCheck(key),
                                          !.yields = @ + 1]
    ELSE /\ vm' = Resumed(vm.kind, <<keys_removed_so_far, FALSE>>)
         /\ status' = "Running"
         /\ key_overwrite' = None
         /\ keys_removed_so_far' = 0
         /\ UNCHANGED main_trie_changes
         /\ hist' = [hist EXCEPT !.honest = @ /\ (key = TruthfulNextKey),
                                     !.invalid = AnswerCheck(key)]

\* NextKey::inject_key, in the ExternalStorageClearPrefix case.
InjectKey_ClearPrefix(key) ==
    IF IsSome(key)
    THEN LET k == nibbles_to_bytes_suffix_extend(key[1])
         IN  IF ~StartsWith(k, vm.prefix)
             THEN /\ status' = "Panicked"
                  /\ UNCHANGED <<vm, main_trie_changes, key_overwrite,
                                 keys_removed_so_far>>
                  /\ hist' = [hist EXCEPT !.honest = @ /\ (key = TruthfulNextKey),
                                     !.invalid = AnswerCheck(key)]
             ELSE IF IsSome(vm.max_keys_to_remove)
                     /\ keys_removed_so_far >= vm.max_keys_to_remove[1]
             THEN /\ vm' = Resumed(vm.kind, <<keys_removed_so_far, TRUE>>)
                  /\ status' = "Running"
                  /\ key_overwrite' = None
                  /\ keys_removed_so_far' = 0
                  /\ UNCHANGED main_trie_changes
                  /\ hist' = [hist EXCEPT !.honest = @ /\ (key = TruthfulNextKey),
                                     !.invalid = AnswerCheck(key)]
             ELSE /\ main_trie_changes' = diff_insert_erase(main_trie_changes, k)
                  /\ keys_removed_so_far' = keys_removed_so_far + 1
                  /\ key_overwrite' = Some(k)
                  /\ status' = "NextKey"
                  /\ UNCHANGED vm
                  /\ hist' = [hist EXCEPT !.honest = @ /\ (key = TruthfulNextKey),
                                     !.invalid = AnswerCheck(key),
                                          !.yields = @ + 1]
    ELSE /\ vm' = Resumed(vm.kind, <<keys_removed_so_far, FALSE>>)
         /\ status' = "Running"
         /\ key_overwrite' = None
         /\ keys_removed_so_far' = 0
         /\ UNCHANGED main_trie_changes
         /\ hist' = [hist EXCEPT !.honest = @ /\ (key = TruthfulNextKey),
                                     !.invalid = AnswerCheck(key)]

\* NextKey::inject_key
NextKey_inject_key(key) ==
    /\ status = "NextKey"
    /\ CASE vm.kind = "ExternalStorageNextKey" ->
              /\ InjectKey_NextKey(key)
              /\ UNCHANGED <<main_trie_changes, root_calculation>>
         [] vm.kind = "ExternalStorageClearPrefix" ->
              /\ InjectKey_ClearPrefix(key)
              /\ UNCHANGED root_calculation
         [] vm.kind = "ExternalStorageRoot" ->
              IF IsSome(root_calculation)
                 /\ root_calculation[1].state = "ClosestDescendant"
              THEN IF ClosestDescendant_inject_panics(key)
                   THEN /\ status' = "Panicked"
                        /\ hist' = [hist EXCEPT !.invalid = AnswerCheck(key)]
                        /\ UNCHANGED <<vm, main_trie_changes, root_calculation,
                                       key_overwrite, keys_removed_so_far>>
                   ELSE /\ \E next \in CalcAdvance(root_calculation[1], NotFed) :
                              root_calculation' = Some(next)
                        /\ status' = "Running"
                        /\ key_overwrite' = None
                        /\ keys_removed_so_far' = 0
                        /\ UNCHANGED <<vm, main_trie_changes, hist>>
              ELSE /\ status' = "Panicked"
                   /\ UNCHANGED <<vm, main_trie_changes, root_calculation,
                                  key_overwrite, keys_removed_so_far, hist>>
         [] OTHER ->
              /\ status' = "Panicked"
              /\ UNCHANGED <<vm, main_trie_changes, root_calculation, key_overwrite,
                             keys_removed_so_far, hist>>
    /\ UNCHANGED <<main_trie_transaction, offchain_storage_changes, logs>>
    /\ UNCHANGED fixedVars

\* ClosestDescendantMerkleValue::resume_unknown and ::inject_merkle_value
\* (`known` tells which): both hand the request back to the calculator.
ClosestDescendantMerkleValue_resume(known) ==
    /\ status = "ClosestDescendantMerkleValue"
    /\ IF IsSome(root_calculation)
          /\ root_calculation[1].state = "ClosestDescendantMerkleValue"
       THEN /\ \E next \in CalcAdvance(root_calculation[1], NotFed) :
                  root_calculation' = Some(next)
            /\ status' = "Running"
       ELSE /\ status' = "Panicked"
            /\ UNCHANGED root_calculation
    /\ UNCHANGED <<vm, main_trie_changes, main_trie_transaction,
                   offchain_storage_changes, logs, key_overwrite, keys_removed_so_far,
                   hist>>
    /\ UNCHANGED fixedVars

\* SignatureVerification::{verify_and_resume, resume_success, resume_failed}
SignatureVerification_resume(how) ==
    /\ status = "SignatureVerification"
    /\ IF vm.kind = "SignatureVerification"
       THEN /\ vm' = Resumed(vm.kind, how)
            /\ status' = "Running"
       ELSE /\ status' = "Panicked"
            /\ UNCHANGED vm
    /\ UNCHANGED <<main_trie_changes, main_trie_transaction, offchain_storage_changes,
                   root_calculation, logs, key_overwrite, keys_removed_so_far, hist>>
    /\ UNCHANGED fixedVars

\* Variant: the prototype is returned but what the driver held is kept.
into_prototype_KeepsState ==
    /\ status \in {"Finished(Ok)", "Finished(Err(WasmVm))", "Finished(Err(LogsTooLong))",
                   "StorageGet", "NextKey", "ClosestDescendantMerkleValue",
                   "SignatureVerification"}
    /\ status' = "Prototype"
    /\ vm' = [kind |-> "Prototype"]
    /\ UNCHANGED <<main_trie_changes, main_trie_transaction, offchain_storage_changes,
                   root_calculation, logs, key_overwrite, keys_removed_so_far, hist>>
    /\ UNCHANGED fixedVars

\* RuntimeHostVm::into_prototype: the driver and all it holds are dropped.
into_prototype ==
    /\ status \in {"Finished(Ok)", "Finished(Err(WasmVm))", "Finished(Err(LogsTooLong))",
                   "StorageGet", "NextKey", "ClosestDescendantMerkleValue",
                   "SignatureVerification"}
    /\ status' = "Prototype"
    /\ vm' = [kind |-> "Prototype"]
    /\ main_trie_changes' = EmptyDiff
    /\ main_trie_transaction' = <<>>
    /\ offchain_storage_changes' = EmptyDiff
    /\ root_calculation' = None
    /\ logs' = <<>>
    /\ key_overwrite' = None
    /\ keys_removed_so_far' = 0
    /\ hist' = [hist EXCEPT !.pre = EmptyDiff, !.tx_start = <<>>, !.at_start = EmptyDiff,
                             !.logs_pre = <<>>, !.offchain_pre = EmptyDiff,
                             !.inner_commit = <<>>]
    /\ UNCHANGED fixedVars

-----------------------------------------------------------------------------

Next ==
    \/ Run_ReadyToRun
    \/ Run_Error
    \/ Run_Finished
    \/ Run_ExternalStorageGet
    \/ Run_ExternalStorageSet
    \/ Run_ExternalStorageAppend
    \/ Run_ExternalStorageClearPrefix
    \/ Run_ExternalStorageRoot
    \/ Run_ExternalStorageNextKey
    \/ Run_ExternalOffchainStorageSet
    \/ Run_SignatureVerification
    \/ Run_CallRuntimeVersion
    \/ Run_StartStorageTransaction
    \/ Run_EndStorageTransaction
    \/ Run_GetMaxLogLevel
    \/ Run_LogEmit
    \/ \E value \in ClientValueAnswers : StorageGet_inject_value(value)
    \/ \E key \in ClientKeyAnswers :
           /\ IsSome(key) => keys_removed_so_far < MaxRemoved
           /\ NextKey_inject_key(key)
    \/ \E known \in BOOLEAN : ClosestDescendantMerkleValue_resume(known)
    \/ \E how \in {"verify_and_resume", "resume_success", "resume_failed"} :
           SignatureVerification_resume(how)
    \/ into_prototype

Spec == Init /\ [][Next]_vars


-----------------------------------------------------------------------------
(* append_to_storage_value on its own: the stored value and the element    *)
(* are drawn from bounded sets, and one step applies the function.         *)

\* Bytes of the lengths tried: each set holds the values around which a
\* compact encoding changes width.
LowBytes == {0, 1, 62, 63, 64, 255}

MidBytes == {0, 63, 64, 255}

HighBytes == {0, 255}

\* The lengths n tried, as usize.
AppendLens ==
    {[i \in 1..UsizeBytes |->
         IF i = 1 THEN b1 ELSE IF i = 2 THEN b2 ELSE IF i = 3 THEN b3
         ELSE IF i = 4 THEN b4 ELSE IF i = 5 THEN b5 ELSE b6] :
       b1 \in LowBytes, b2 \in MidBytes, b3 \in HighBytes, b4 \in MidBytes,
       b5 \in HighBytes, b6 \in HighBytes}

\* Payloads that follow the length prefix.
PayloadBytes == {0, 9}

Payloads == UNION {[1..n -> PayloadBytes] : n \in 0..MaxPayload}

\* Values that are a compact length followed by a payload.
WellFormedInputs ==
    {[wf |-> TRUE, n |-> n, payload |-> p,
      value |-> encode_scale_compact_usize(n) \o p] : n \in AppendLens, p \in Payloads}

\* Values that are no compact length followed by a payload: too short for
\* their mode, with a zero most significant byte, or not the shortest
\* encoding of their number, or longer than a usize.
RawBytes == {0, 1, 2, 3, 187, 253}

RawValues ==
    (UNION {[1..n -> RawBytes] : n \in 0..3})
      \cup { <<3, 0, 0, 0, 0>>, <<3, 255, 255, 255, 63>>, <<7, 1, 1, 1, 1, 0>>,
             <<23, 1, 1, 1, 1, 1, 1, 1, 1, 1>>,
             <<19, 255, 255, 255, 255, 255, 255, 255, 255>>,
             <<19, 255, 255, 255, 255, 255, 255, 255, 255, 9>> }

RawInputs ==
    {[wf |-> FALSE, n |-> ZeroUsize, payload |-> <<>>, value |-> v] : v \in RawValues}

Elements == {<<1>>, <<5, 0>>}

InitAppend ==
    /\ vm = [kind |-> "Prototype"]
    /\ main_trie_changes = EmptyDiff
    /\ main_trie_transaction = <<>>
    /\ offchain_storage_changes = EmptyDiff
    /\ root_calculation = None
    /\ logs = <<>>
    /\ state_trie_version = "V1"
    /\ max_log_level = 3
    /\ status = "Prototype"
    /\ key_overwrite = None
    /\ keys_removed_so_far = 0
    /\ backing = {}
    /\ program = "any"
    /\ hist = [req |-> NoRequest, pre |-> EmptyDiff, yields |-> 0,
               honest |-> TRUE, ops |-> 0, vm_tx |-> 0, tx_start |-> <<>>,
               at_start |-> EmptyDiff, logs_pre |-> <<>>, invalid |-> "no",
               offchain_pre |-> offchain_storage_changes, answer |-> None,
               emitted |-> <<>>, overlay_only |-> EmptyDiff,
               offchain_written |-> EmptyDiff, tx_clean |-> FALSE,
               clean_at_start |-> FALSE, inner_commit |-> <<>>,
               committed_inside |-> FALSE]
    /\ \E in \in WellFormedInputs \cup RawInputs, e \in Elements, d \in Builds :
           app = [phase |-> "input", in |-> in, to_add |-> e, debug_assertions |-> d,
                  out |-> [value |-> <<>>, panic |-> FALSE]]

\* One call of append_to_storage_value.
AppendCall ==
    /\ app.phase = "input"
    /\ app' = [app EXCEPT !.phase = "done",
                          !.out = append_to_storage_value(app.in.value, app.to_add,
                                                          app.debug_assertions)]
    /\ UNCHANGED driverVars

NextAppend == AppendCall

SpecAppend == InitAppend /\ [][NextAppend]_vars


-----------------------------------------------------------------------------
(* Properties.                                                             *)

\* The runtime has just been resumed from an externality of kind `kind`.
ResumedFrom(kind) ==
    /\ status = "Running"
    /\ vm.kind = "ReadyToRun"
    /\ vm.resumed.op = kind
    /\ hist.req.kind = kind

\* The externality just served addressed the main trie.
OnMainTrie == hist.req.trie = "MainTrie"

\* C1 (overlay primacy): a main-trie StorageSet(k, Some(v)) leaves v under k
\* in the main-trie diff; and whenever the diff holds a value v under k (set by
\* the runtime or present in the initial diff), a main-trie StorageGet(k) is
\* never yielded to the client as a StorageGet status, and resumes the runtime
\* with v without any yield.
C1_OverlayPrimacy ==
    /\ (ResumedFrom("ExternalStorageSet") /\ OnMainTrie /\ IsSome(hist.req.value))
          => diff_get(main_trie_changes, hist.req.key) = Some(hist.req.value)
    /\ (status = "StorageGet" /\ vm.kind = "ExternalStorageGet")
          => ~(vm.key \in DOMAIN main_trie_changes /\ IsSome(main_trie_changes[vm.key]))
    /\ (ResumedFrom("ExternalStorageGet") /\ OnMainTrie
           /\ hist.req.key \in DOMAIN hist.pre /\ IsSome(hist.pre[hist.req.key]))
          => (vm.resumed.val = hist.pre[hist.req.key] /\ hist.yields = 0)

\* C1 witness: a get of K2, which only a StorageSet of the runtime can have
\* put in the diff, answered with the written value and no yield.
C1_Witness ==
    /\ ResumedFrom("ExternalStorageGet")
    /\ OnMainTrie
    /\ hist.req.key = K2
    /\ vm.resumed.val = Some(ValueAA)
    /\ hist.yields = 0

\* C2 (erase visibility): a main-trie StorageSet(k, None) leaves an erasure
\* under k in the diff; while the diff holds an erasure under k, a main-trie
\* StorageGet(k) is not yielded and resumes the runtime with "absent", and a
\* main-trie StorageNextKey never resumes the runtime with k, whatever the
\* client answers.
C2_EraseVisibility ==
    /\ (ResumedFrom("ExternalStorageSet") /\ OnMainTrie /\ hist.req.value = None)
          => diff_get(main_trie_changes, hist.req.key) = Some(None)
    /\ (status = "StorageGet" /\ vm.kind = "ExternalStorageGet")
          => vm.key \notin DOMAIN main_trie_changes
    /\ (ResumedFrom("ExternalStorageGet") /\ OnMainTrie
           /\ hist.req.key \in DOMAIN hist.pre /\ hist.pre[hist.req.key] = None)
          => (vm.resumed.val = None /\ hist.yields = 0)
    /\ (ResumedFrom("ExternalStorageNextKey") /\ OnMainTrie)
          => \A k \in DOMAIN main_trie_changes :
                 main_trie_changes[k] = None => vm.resumed.val # Some(k)

\* C2 witness: the backing store's next key after the asked one is erased in
\* the overlay, the client answered truthfully (so it answered that key), and
\* the runtime has been resumed.
C2_Witness ==
    /\ ResumedFrom("ExternalStorageNextKey")
    /\ OnMainTrie
    /\ hist.honest
    /\ hist.yields >= 2
    /\ \E k \in backing :
          /\ SeqLess(hist.req.key, k)
          /\ \A j \in backing : SeqLess(hist.req.key, j) => SeqLeq(k, j)
          /\ k \in DOMAIN main_trie_changes
          /\ main_trie_changes[k] = None

\* C3 (transaction rollback): right after EndStorageTransaction{rollback=true}
\* the main-trie diff equals the diff at the moment the runtime issued the
\* matching StartStorageTransaction, whatever was written in between.
C3_TransactionRollback ==
    (ResumedFrom("EndStorageTransaction") /\ hist.req.rollback)
        => main_trie_changes = hist.at_start

\* C3 witness: a rollback that undid something.
C3_Witness ==
    /\ ResumedFrom("EndStorageTransaction")
    /\ hist.req.rollback
    /\ hist.pre # main_trie_changes

\* C4 (transaction commit): right after EndStorageTransaction{rollback=false}
\* the main-trie diff is the diff just before the End, and the stack is the
\* stack of the still open transactions: the popped snapshot is gone.
C4_TransactionCommit ==
    (ResumedFrom("EndStorageTransaction") /\ ~hist.req.rollback)
        => (main_trie_changes = hist.pre /\ main_trie_transaction = hist.tx_start)

\* C4 witness: a commit of a transaction that wrote something.
C4_Witness ==
    /\ ResumedFrom("EndStorageTransaction")
    /\ ~hist.req.rollback
    /\ hist.at_start # main_trie_changes

\* C5 (nested rollback): at every moment outside the Start and End arms, the
\* snapshots on the stack are, in order, the diffs at the Start of each open
\* transaction (so no rollback or write of an inner transaction alters the
\* snapshot of an enclosing one, and a later outer rollback restores the diff
\* of the outer Start); and an inner rollback restores the diff of the inner
\* Start.
C5_NestedRollback ==
    /\ (vm.kind \notin {"StartStorageTransaction", "EndStorageTransaction"}
           /\ status \notin {"Prototype", "Panicked"})
          => main_trie_transaction = hist.tx_start
    /\ (ResumedFrom("EndStorageTransaction") /\ hist.req.rollback
           /\ Len(main_trie_transaction) >= 1)
          => main_trie_changes = hist.at_start

\* C5 witness: an inner rollback that undid inner writes and kept writes the
\* outer transaction made before the inner Start.
C5_Witness ==
    /\ ResumedFrom("EndStorageTransaction")
    /\ hist.req.rollback
    /\ Len(main_trie_transaction) >= 1
    /\ main_trie_changes # hist.pre
    /\ main_trie_changes # main_trie_transaction[Len(main_trie_transaction)]

\* The value the append law asks for: the compact encoding of n + 1, the
\* payload, then the element.
AppendLawValue ==
    encode_scale_compact_usize(checked_add_one(app.in.n)[1])
        \o app.in.payload \o app.to_add

\* The length 2^14 - 1, the largest the two-byte mode holds.
Len2p14m1 == [i \in 1..UsizeBytes |-> IF i = 1 THEN 255 ELSE IF i = 2 THEN 63 ELSE 0]

\* C6 as stated (append law): for a value that is the compact encoding of n
\* followed by a payload, with n + 1 representable, append_to_storage_value
\* with element e yields the compact encoding of n + 1, the same payload, then
\* e, for every n, the n at which the prefix widens included.
C6_AppendLaw ==
    (app.phase = "done" /\ app.in.wf /\ checked_add_one(app.in.n) # None)
        => app.out = [value |-> AppendLawValue, panic |-> FALSE]

\* C6, what the code does: the append law holds for every n in a build without
\* debug assertions, and for every n but 2^14 - 1 in a build with them, where
\* the call panics instead.
C6_AppendLawPerBuild ==
    (app.phase = "done" /\ app.in.wf /\ checked_add_one(app.in.n) # None)
        => IF app.debug_assertions /\ app.in.n = Len2p14m1
           THEN app.out.panic
           ELSE app.out = [value |-> AppendLawValue, panic |-> FALSE]

\* C6 witness: a sequence of 2^14 - 1 elements, appended to in a build with
\* debug assertions: the call panics and yields nothing.
C6_Witness ==
    /\ app.phase = "done"
    /\ app.debug_assertions
    /\ app.in.wf
    /\ app.in.value = <<253, 255, 9, 0>>
    /\ app.out.panic

\* The append law holds across the widening 63 -> 64: the prefix 0xFC becomes
\* 0x01 0x01 and the payload moves right by one byte.
AppendWidens63 ==
    /\ app.phase = "done"
    /\ app.in.value = <<252, 9, 0>>
    /\ app.to_add = <<1>>
    /\ app.out.value = <<1, 1, 9, 0, 1>>

\* C7 as stated (append width invariant): when the value decodes to a length n
\* read from w bytes and n + 1 does not overflow, the encoding of n + 1 takes
\* w or w + 1 bytes, and the debug assertion never fails.
C7_AppendWidth ==
    app.phase = "done" =>
        LET dec == nom_scale_compact_usize(app.in.value)
        IN  (dec.ok /\ checked_add_one(dec.len) # None)
                => /\ ~app.out.panic
                   /\ Len(encode_scale_compact_usize(checked_add_one(dec.len)[1]))
                          \in {dec.size, dec.size + 1}

\* C7, what the code does: the encoding of n + 1 takes w, w + 1 or w + 2
\* bytes, and w + 2 exactly at n = 2^14 - 1 (two bytes, then four), which is
\* exactly where a build with debug assertions panics.
C7_AppendWidthActual ==
    app.phase = "done" =>
        LET dec == nom_scale_compact_usize(app.in.value)
        IN  (dec.ok /\ checked_add_one(dec.len) # None)
                => LET w2 == Len(encode_scale_compact_usize(checked_add_one(dec.len)[1]))
                   IN  /\ w2 \in {dec.size, dec.size + 1, dec.size + 2}
                       /\ (w2 = dec.size + 2) <=> (dec.len = Len2p14m1)
                       /\ app.out.panic <=> (app.debug_assertions /\ dec.len = Len2p14m1)

\* C7 witness: the length 2^14 - 1 is read from 2 bytes and 2^14 is written
\* on 4: without debug assertions the payload moves right by two bytes.
C7_Witness ==
    /\ app.phase = "done"
    /\ ~app.debug_assertions
    /\ app.in.value = <<253, 255, 9>>
    /\ app.to_add = <<1>>
    /\ app.out = [value |-> <<2, 0, 1, 0, 9, 1>>, panic |-> FALSE]

\* C8 (append from malformed): when the value does not decode as a compact
\* length (the empty value included) or the decoded length plus one overflows,
\* the result is the encoding of 1 (the byte 0x04) followed by the element.
C8_AppendMalformed ==
    app.phase = "done" =>
        LET dec == nom_scale_compact_usize(app.in.value)
        IN  (~dec.ok \/ checked_add_one(dec.len) = None)
                => app.out = [value |-> <<4>> \o app.to_add, panic |-> FALSE]

\* C8 witness: a non-empty value too short for its mode is replaced.
C8_Witness ==
    /\ app.phase = "done"
    /\ app.in.value = <<187, 2>>
    /\ app.to_add = <<5, 0>>
    /\ app.out.value = <<4, 5, 0>>

Matching == {k \in backing : StartsWith(k, hist.req.prefix)}

\* Keys whose entry in the diff the externality just served has changed.
Changed ==
    {k \in DOMAIN main_trie_changes :
        diff_get(hist.pre, k) # diff_get(main_trie_changes, k)}

\* A main-trie ClearPrefix with a limit has been served by a truthful client.
CappedClearServed ==
    /\ ResumedFrom("ExternalStorageClearPrefix")
    /\ OnMainTrie
    /\ IsSome(hist.req.max_keys_to_remove)
    /\ hist.honest

\* C10 as stated (clear-prefix cap): at most m keys are erased and the flag
\* handed to the runtime is false if and only if at least m backing-store keys
\* matched the prefix.
C10_AsStated ==
    CappedClearServed =>
        /\ vm.resumed.val[1] <= hist.req.max_keys_to_remove[1]
        /\ (vm.resumed.val[2] = FALSE)
               <=> (Cardinality(Matching) >= hist.req.max_keys_to_remove[1])

\* C10 amended (clear-prefix cap): at most m keys are erased and the flag
\* handed to the runtime is false if and only if at most m backing-store keys
\* matched the prefix (it is true exactly when more than m matched).
C10_ClearPrefixCap ==
    CappedClearServed =>
        /\ vm.resumed.val[1] <= hist.req.max_keys_to_remove[1]
        /\ Cardinality(Changed) <= hist.req.max_keys_to_remove[1]
        /\ (vm.resumed.val[2] = FALSE)
               <=> (Cardinality(Matching) <= hist.req.max_keys_to_remove[1])

\* C10 witness: more keys matched than the limit, the limit was reached and
\* the flag is true.
C10_Witness ==
    /\ CappedClearServed
    /\ hist.req.max_keys_to_remove[1] >= 1
    /\ Cardinality(Matching) > hist.req.max_keys_to_remove[1]
    /\ vm.resumed.val = <<hist.req.max_keys_to_remove[1], TRUE>>
    /\ Cardinality(Changed) = hist.req.max_keys_to_remove[1]


\* The j least of a set of keys.
RECURSIVE FirstOf(_, _)
FirstOf(S, j) ==
    IF j = 0 \/ S = {} THEN {}
    ELSE {MinSeq(S)} \cup FirstOf(S \ {MinSeq(S)}, j - 1)

\* The greatest of a non-empty set of keys.
MaxSeq(S) == CHOOSE x \in S : \A y \in S : SeqLeq(y, x)

\* The number of keys a clear-prefix with the limit of the externality just
\* issued erases out of the matching ones.
ClearCount ==
    IF IsSome(hist.req.max_keys_to_remove)
       /\ Cardinality(Matching) > hist.req.max_keys_to_remove[1]
    THEN hist.req.max_keys_to_remove[1]
    ELSE Cardinality(Matching)

\* C11 (clear-prefix iteration protocol): for a main-trie ClearPrefix(p, max)
\* served by a truthful client over a backing store with n keys matching p,
\* the first NextKey asks for p with or_equal true, and each later one asks
\* for the key just erased with or_equal false; with max = m and n > m the
\* VM is resumed with (m, true) after exactly m + 1 yields and m erasures (of
\* the m least matching keys), otherwise with (n, false) after exactly n + 1
\* yields and n erasures; no other entry of the diff changes.
C11_ClearPrefixProtocol ==
    /\ (status = "NextKey" /\ vm.kind = "ExternalStorageClearPrefix" /\ hist.honest)
          => /\ keys_removed_so_far = hist.yields - 1
             /\ keys_removed_so_far <= ClearCount
             /\ NextKey_prefix = bytes_to_nibbles(vm.prefix)
             /\ IF keys_removed_so_far = 0
                THEN /\ NextKey_key = bytes_to_nibbles(vm.prefix)
                     /\ NextKey_or_equal
                ELSE /\ NextKey_key = bytes_to_nibbles(
                                         MaxSeq(FirstOf(Matching, keys_removed_so_far)))
                     /\ ~NextKey_or_equal
                     /\ diff_get(main_trie_changes,
                                 MaxSeq(FirstOf(Matching, keys_removed_so_far)))
                            = Some(None)
    /\ (ResumedFrom("ExternalStorageClearPrefix") /\ OnMainTrie /\ hist.honest)
          => /\ vm.resumed.val = <<ClearCount, ClearCount < Cardinality(Matching)>>
             /\ hist.yields = ClearCount + 1
             /\ \A k \in FirstOf(Matching, ClearCount) :
                    diff_get(main_trie_changes, k) = Some(None)
             /\ \A k \in Keys \ FirstOf(Matching, ClearCount) :
                    diff_get(main_trie_changes, k) = diff_get(hist.pre, k)
             /\ DOMAIN main_trie_changes \subseteq Keys

\* C11 witness: three keys match, the limit is two: three yields, the two
\* least keys erased, the VM resumed with (2, true).
C11_Witness ==
    /\ ResumedFrom("ExternalStorageClearPrefix")
    /\ OnMainTrie
    /\ hist.honest
    /\ hist.req.prefix = <<>>
    /\ backing = Keys
    /\ hist.req.max_keys_to_remove = Some(2)
    /\ hist.yields = 3
    /\ vm.resumed.val = <<2, TRUE>>
    /\ diff_get(main_trie_changes, K1) = Some(None)
    /\ diff_get(main_trie_changes, K2) = Some(None)
    /\ diff_get(main_trie_changes, K3) = None


\* The keys a read of the main trie sees when the externality just served was
\* issued: the backing store's keys not erased in the overlay, and the keys
\* the overlay holds a value for.
MergedKeys ==
    {k \in backing : diff_get(hist.pre, k) # Some(None)}
      \cup {k \in DOMAIN hist.pre : IsSome(hist.pre[k])}

\* The least key of a set that is greater than `key`, if any.
NextAfter(S, key) ==
    LET after == {k \in S : SeqLess(key, k)}
    IN  IF after = {} THEN None ELSE Some(MinSeq(after))

\* Keys the overlay holds a value for and that are greater than every key of
\* the backing store.
InsertedAboveBacking ==
    {k \in DOMAIN hist.pre :
        IsSome(hist.pre[k]) /\ \A b \in backing : SeqLess(b, k)}

\* C12 as stated (next-key consistency): for any key k inserted in the overlay
\* and greater than the greatest backing-store key, a main-trie
\* StorageNextKey(k') with k' < k resumes the VM with k, whatever the client
\* answers.
C12_AsStated ==
    (ResumedFrom("ExternalStorageNextKey") /\ OnMainTrie)
        => \A k \in InsertedAboveBacking :
               SeqLess(hist.req.key, k) => vm.resumed.val = Some(k)

\* C12 amended (next-key consistency): with a truthful client, a main-trie
\* StorageNextKey(k') resumes the VM with the least key greater than k' among
\* the backing store's keys not erased in the overlay and the keys inserted in
\* the overlay; so for an inserted key k greater than the greatest
\* backing-store key and k' < k, it resumes with k if and only if no such key
\* lies strictly between k' and k.
C12_NextKeyConsistency ==
    (ResumedFrom("ExternalStorageNextKey") /\ OnMainTrie /\ hist.honest)
        => /\ vm.resumed.val = NextAfter(MergedKeys, hist.req.key)
           /\ \A k \in InsertedAboveBacking :
                  SeqLess(hist.req.key, k)
                     => ((vm.resumed.val = Some(k))
                            <=> ~\E j \in MergedKeys :
                                    SeqLess(hist.req.key, j) /\ SeqLess(j, k))

\* C12 witness: the backing store is not empty, the overlay holds a key above
\* all of its keys, the client answered that the backing store has no next
\* key, and the VM is resumed with the overlay's key.
C12_Witness ==
    /\ ResumedFrom("ExternalStorageNextKey")
    /\ OnMainTrie
    /\ hist.honest
    /\ backing # {}
    /\ hist.req.key \in backing
    /\ \E k \in InsertedAboveBacking :
          SeqLess(hist.req.key, k) /\ vm.resumed.val = Some(k)


\* The statuses RuntimeHostVm has.
Statuses ==
    {"Finished(Ok)", "Finished(Err(WasmVm))", "Finished(Err(LogsTooLong))",
     "StorageGet", "NextKey", "ClosestDescendantMerkleValue", "SignatureVerification"}

\* C13 (cancellation): into_prototype can be called on every status returned
\* to the client, and once it has been called only the VM prototype is left:
\* the main-trie diff, the off-chain diff, the logs, the transaction stack and
\* the root calculation in flight are gone.
C13_Cancellation ==
    /\ status \in Statuses => ENABLED into_prototype
    /\ status = "Prototype"
          => /\ vm = [kind |-> "Prototype"]
             /\ main_trie_changes = EmptyDiff
             /\ offchain_storage_changes = EmptyDiff
             /\ logs = <<>>
             /\ main_trie_transaction = <<>>
             /\ root_calculation = None
             /\ key_overwrite = None
             /\ keys_removed_so_far = 0

\* C13 witness: the call was cancelled in the middle of a clear-prefix that
\* had erased a key, inside an open transaction.
C13_Witness ==
    /\ status = "Prototype"
    /\ hist.req.kind = "ExternalStorageClearPrefix"
    /\ hist.yields >= 2
    /\ hist.vm_tx > 0


\* The statuses that hold a paused VM.
Suspensions ==
    {"StorageGet", "NextKey", "ClosestDescendantMerkleValue", "SignatureVerification"}

\* C14 (root calculation in flight): on every status returned to the client
\* that holds a paused VM, root_calculation is Some if and only if the VM is
\* in ExternalStorageRoot; on a Finished status there is none; and between
\* two statuses (the odd-nibble shortcut, the re-entry methods) a calculation
\* is held only while the VM is in ExternalStorageRoot.
C14_RootCalculationInFlight ==
    /\ status \in Suspensions
          => (IsSome(root_calculation) <=> vm.kind = "ExternalStorageRoot")
    /\ status \in Statuses \ Suspensions => root_calculation = None
    /\ status = "Running" /\ IsSome(root_calculation)
          => vm.kind = "ExternalStorageRoot"

\* C14 witness: the calculator's second request reaches the client, so a
\* re-entry method and the run loop have taken and put back the calculation.
C14_Witness ==
    /\ status \in Suspensions
    /\ vm.kind = "ExternalStorageRoot"
    /\ IsSome(root_calculation)
    /\ root_calculation[1].steps = 2


\* The root calculation in flight is in state `st`.
CalcIn(st) == IsSome(root_calculation) /\ root_calculation[1].state = st

\* C15 (status/VM agreement): on every status that holds a paused VM, the VM
\* is in an externality the status advertises: StorageGet with a main-trie
\* get or append or a root whose calculator asks for a storage value; NextKey
\* with a main-trie next-key, a main-trie clear-prefix with key_overwrite
\* set, or a root whose calculator asks for a closest descendant;
\* ClosestDescendantMerkleValue with a root whose calculator asks for it;
\* SignatureVerification with the VM's own.  So the accessors never reach
\* their unreachable branch, and a re-entry method panics only on an answer
\* to NextKey that does not respect the key or the prefix asked.
C15_StatusVmAgreement ==
    /\ status = "StorageGet"
          => /\ \/ vm.kind \in {"ExternalStorageGet", "ExternalStorageAppend"}
                      /\ vm.trie = "MainTrie"
                \/ vm.kind = "ExternalStorageRoot" /\ vm.trie = "MainTrie"
                      /\ CalcIn("StorageValue")
             /\ StorageGet_key # Unreachable
    /\ status = "NextKey"
          => /\ \/ vm.kind = "ExternalStorageNextKey" /\ vm.trie = "MainTrie"
                \/ vm.kind = "ExternalStorageClearPrefix" /\ vm.trie = "MainTrie"
                      /\ IsSome(key_overwrite)
                \/ vm.kind = "ExternalStorageRoot" /\ vm.trie = "MainTrie"
                      /\ CalcIn("ClosestDescendant") /\ key_overwrite = None
             /\ NextKey_key # Unreachable
             /\ NextKey_prefix # Unreachable
    /\ status = "ClosestDescendantMerkleValue"
          => vm.kind = "ExternalStorageRoot" /\ vm.trie = "MainTrie"
                /\ CalcIn("ClosestDescendantMerkleValue")
    /\ status = "SignatureVerification" => vm.kind = "SignatureVerification"
    /\ status = "Panicked"
          => /\ vm.kind \in {"ExternalStorageNextKey", "ExternalStorageClearPrefix",
                              "ExternalStorageRoot"}
             /\ hist.invalid # "no"

\* C15 witness: a clear-prefix still paused on NextKey after an answer that
\* is not the backing store's.
C15_Witness ==
    /\ status = "NextKey"
    /\ vm.kind = "ExternalStorageClearPrefix"
    /\ ~hist.honest
    /\ keys_removed_so_far >= 1
    /\ IsSome(key_overwrite)


\* C16 (root-calculator value requests): a request of the calculator for the
\* value of a key with an odd number of nibbles is answered None by the
\* driver and never reaches the client: every StorageGet status with a root
\* calculation in flight has the calculator in StorageValue with a key of an
\* even number of nibbles, and the calculator was never fed anything but None
\* for a key of an odd number of nibbles.
C16_RootValueRequests ==
    /\ (status = "StorageGet" /\ IsSome(root_calculation))
          => /\ vm.kind = "ExternalStorageRoot"
             /\ root_calculation[1].state = "StorageValue"
             /\ Len(root_calculation[1].key) % 2 = 0
    /\ (IsSome(root_calculation) /\ root_calculation[1].fed # NotFed
           /\ Len(root_calculation[1].fed[1]) % 2 = 1)
          => root_calculation[1].fed[2] = "None"

\* C16 witness: the calculator asked for the value of a key of one nibble,
\* was fed None with no status returned, and has moved on to a request that
\* reached the client.
C16_Witness ==
    /\ status \in Suspensions
    /\ IsSome(root_calculation)
    /\ root_calculation[1].fed = <<(<<0>>), "None">>
    /\ hist.yields = 1


\* C17 as stated (invalid client answers fail loudly): in every case of
\* NextKey::inject_key, a key that is not after the asked key (or before it,
\* when or_equal is true), or that does not start with the asked prefix,
\* makes the driver panic; it is never accepted.
C17_AsStated ==
    hist.invalid # "no" => status = "Panicked"

\* C17, what the code does: a key that does not start with the asked prefix
\* always makes the driver panic; a key that starts with it but is not after
\* the asked key makes it panic in the next-key and root cases, and is
\* accepted in the clear-prefix case, where it is erased and counted.
C17_InvalidAnswers ==
    /\ hist.invalid = "prefix" => status = "Panicked"
    /\ (hist.invalid = "order" /\ status # "Panicked")
          => hist.req.kind = "ExternalStorageClearPrefix"
    /\ status = "Panicked" => hist.invalid # "no"

\* C17 witness: a clear-prefix was answered the key it had just erased; the
\* driver counts two keys removed, one key is erased, and it asks again.
C17_Witness ==
    /\ status = "NextKey"
    /\ vm.kind = "ExternalStorageClearPrefix"
    /\ hist.invalid = "order"
    /\ keys_removed_so_far = 2
    /\ Cardinality(Changed) = 1


\* C18 (reads do not dirty): a main-trie StorageGet leaves the main-trie
\* diff, the off-chain diff and the transaction stack as they were when it
\* was issued, while the client is asked and once the VM is resumed; it is
\* answered from the overlay without a status, or by one answer of the
\* client, whose bytes (absent for None) the VM receives.
C18_ReadsDoNotDirty ==
    ((ResumedFrom("ExternalStorageGet")
         \/ (status = "StorageGet" /\ vm.kind = "ExternalStorageGet"))
       /\ OnMainTrie)
        => /\ main_trie_changes = hist.pre
           /\ offchain_storage_changes = hist.offchain_pre
           /\ main_trie_transaction = hist.tx_start
           /\ ResumedFrom("ExternalStorageGet")
                 => IF hist.yields = 0
                    THEN /\ hist.req.key \in DOMAIN hist.pre
                         /\ vm.resumed.val = hist.pre[hist.req.key]
                    ELSE /\ hist.yields = 1
                         /\ hist.req.key \notin DOMAIN hist.pre
                         /\ IsSome(hist.answer)
                         /\ vm.resumed.val =
                              (IF IsSome(hist.answer[1])
                               THEN Some(hist.answer[1][1][1]) ELSE None)

\* C18 witness: inside a transaction, with writes in both diffs, a get of a
\* key the overlay does not hold was answered 0xBB by the client.
C18_Witness ==
    /\ ResumedFrom("ExternalStorageGet")
    /\ OnMainTrie
    /\ hist.yields = 1
    /\ vm.resumed.val = Some(<<187>>)
    /\ main_trie_changes # EmptyDiff
    /\ main_trie_transaction # <<>>


\* C19 (NextKey observables): on every NextKey status, or_equal() is true
\* exactly when a prefix is being cleared and no key has been removed yet or
\* a root is being calculated; branch_nodes() is true exactly when a root is
\* being calculated; prefix() is the nibbles of the prefix being cleared,
\* the calculator's query key during a root calculation, and empty for a
\* next-key query; key() is the nibbles of key_overwrite when it is set and
\* otherwise the nibbles of the key of the next-key query or the
\* calculator's query key. key_overwrite is always set while clearing a
\* prefix and never during a root calculation, so no unreachable branch of
\* key() is taken.
C19_NextKeyObservables ==
    status = "NextKey"
        => /\ vm.kind = hist.req.kind
           /\ hist.req.kind \in {"ExternalStorageNextKey",
                                 "ExternalStorageClearPrefix",
                                 "ExternalStorageRoot"}
           /\ NextKey_or_equal
                 <=> \/ (hist.req.kind = "ExternalStorageClearPrefix"
                            /\ keys_removed_so_far = 0)
                     \/ hist.req.kind = "ExternalStorageRoot"
           /\ NextKey_branch_nodes <=> hist.req.kind = "ExternalStorageRoot"
           /\ CASE hist.req.kind = "ExternalStorageClearPrefix" ->
                     /\ IsSome(key_overwrite)
                     /\ NextKey_prefix = bytes_to_nibbles(hist.req.prefix)
                     /\ NextKey_key = bytes_to_nibbles(key_overwrite[1])
                [] hist.req.kind = "ExternalStorageRoot" ->
                     /\ key_overwrite = None
                     /\ IsSome(root_calculation)
                     /\ root_calculation[1].state = "ClosestDescendant"
                     /\ NextKey_prefix = root_calculation[1].key
                     /\ NextKey_key = root_calculation[1].key
                [] hist.req.kind = "ExternalStorageNextKey" ->
                     /\ NextKey_prefix = <<>>
                     /\ NextKey_key =
                           (IF IsSome(key_overwrite)
                            THEN bytes_to_nibbles(key_overwrite[1])
                            ELSE bytes_to_nibbles(hist.req.key))
                [] OTHER -> FALSE

\* C19 witness: a prefix is being cleared and one key is already removed:
\* or_equal() and branch_nodes() are false, prefix() is the prefix asked and
\* key() the key just removed, longer than the prefix.
C19_Witness ==
    /\ status = "NextKey"
    /\ vm.kind = "ExternalStorageClearPrefix"
    /\ keys_removed_so_far = 1
    /\ ~NextKey_or_equal
    /\ ~NextKey_branch_nodes
    /\ hist.honest
    /\ NextKey_prefix = bytes_to_nibbles(K1)
    /\ NextKey_key = bytes_to_nibbles(K2)


\* The externalities that address a trie.
TrieRequestKinds == {r.kind : r \in ChildTrieRequests}

\* C20 (child tries are stubbed): a get, set, append, clear-prefix, root or
\* next-key externality that does not address the main trie never suspends
\* the execution and never has a root calculation in flight; the VM is
\* resumed at once with the empty result ((0, false) for a clear-prefix,
\* None or nothing otherwise), and the main-trie diff, the off-chain diff and
\* the transaction stack are what they were when it was issued.
C20_ChildTriesStubbed ==
    /\ (vm.kind \in TrieRequestKinds /\ vm.trie = "ChildTrie")
          => /\ status \notin Suspensions
             /\ status # "Panicked"
             /\ root_calculation = None
             /\ main_trie_changes = hist.pre
             /\ offchain_storage_changes = hist.offchain_pre
             /\ main_trie_transaction = hist.tx_start
    /\ \A kind \in TrieRequestKinds :
          (ResumedFrom(kind) /\ hist.req.trie = "ChildTrie")
             => /\ hist.yields = 0
                /\ vm.resumed.val = (IF kind = "ExternalStorageClearPrefix"
                                     THEN <<0, FALSE>> ELSE None)
                /\ root_calculation = None
                /\ main_trie_changes = hist.pre
                /\ offchain_storage_changes = hist.offchain_pre
                /\ main_trie_transaction = hist.tx_start

\* C20 witness: a set of 0xAA at K1 in a child trie was served while the
\* main-trie diff holds no entry for K1.
C20_Witness ==
    /\ ResumedFrom("ExternalStorageSet")
    /\ hist.req.trie = "ChildTrie"
    /\ hist.req.key = K1
    /\ hist.req.value = Some(ValueAA)
    /\ diff_get(main_trie_changes, K1) = None


\* Starts handled minus Ends handled: the Starts less the Ends the runtime
\* has issued, without the one the driver has not served yet.
HandledBalance ==
    hist.vm_tx
      - (IF vm.kind = "StartStorageTransaction" THEN 1 ELSE 0)
      + (IF vm.kind = "EndStorageTransaction" THEN 1 ELSE 0)

\* C21 (transaction stack balance): as long as the driver exists the depth of
\* the stack is the number of StartStorageTransaction handled minus the
\* number of EndStorageTransaction handled; an End is handled with a
\* non-empty stack, never panics and pops exactly one snapshot; and when the
\* runtime finishes after as many Ends as Starts the stack is empty.
C21_TransactionBalance ==
    status # "Prototype"
        => /\ Len(main_trie_transaction) = HandledBalance
           /\ vm.kind = "EndStorageTransaction"
                 => /\ main_trie_transaction # <<>>
                    /\ status = "Running"
           /\ ResumedFrom("EndStorageTransaction")
                 => /\ Len(main_trie_transaction) = Len(hist.tx_start)
                    /\ Len(main_trie_transaction) = hist.vm_tx
           /\ (status = "Finished(Ok)" /\ hist.vm_tx = 0)
                 => main_trie_transaction = <<>>

\* C21 witness: an End was handled while two transactions were open: one
\* snapshot is left.
C21_Witness ==
    /\ ResumedFrom("EndStorageTransaction")
    /\ Len(main_trie_transaction) = 1
    /\ hist.vm_tx = 1


\* C22 (logs are surfaced completely and in order): when the call ends with
\* Finished(Ok) or with the WasmVm error, the logs handed over are the
\* writes of every message the runtime emitted, in the order of emission,
\* and nothing else; while a LogEmit that was accepted is the last thing
\* served the buffer is what it was before followed by the message; and as
\* long as the driver exists each step leaves the earlier buffer as a prefix
\* of the later one.
C22_LogsComplete ==
    /\ [](/\ status \in {"Finished(Ok)", "Finished(Err(WasmVm))"}
              => logs = hist.emitted
          /\ ResumedFrom("LogEmit")
              => /\ logs = hist.logs_pre \o WriteLens(hist.req.msg)
                 /\ logs = hist.emitted)
    /\ [][status' # "Prototype" => StartsWith(logs', logs)]_vars

\* C22 witness: the call ended well after two messages of different lengths;
\* the logs hold the longer one, emitted first, then the shorter one.
C22_Witness ==
    /\ status = "Finished(Ok)"
    /\ logs = <<524288, 1>>
    /\ hist.emitted = logs


\* C23 (next-key over the merged view): while a main-trie StorageNextKey(q)
\* is served by a truthful client, the first NextKey asks for q and each
\* later one asks for a key k that the overlay erases, greater than q and
\* with no key of the merged view in between (q excluded, k included), with
\* or_equal and branch_nodes false and an empty prefix; the number of yields
\* is at most one more than the number of keys the overlay erases; and the
\* VM is finally resumed with the least key of the merged view greater than
\* q, or with None when there is none.
C23_NextKeyMergedView ==
    /\ (status = "NextKey" /\ vm.kind = "ExternalStorageNextKey" /\ hist.honest)
          => /\ ~NextKey_or_equal
             /\ ~NextKey_branch_nodes
             /\ NextKey_prefix = <<>>
             /\ main_trie_changes = hist.pre
             /\ hist.yields
                  <= 1 + Cardinality({k \in DOMAIN hist.pre : hist.pre[k] = None})
             /\ IF hist.yields = 1
                THEN /\ key_overwrite = None
                     /\ NextKey_key = bytes_to_nibbles(hist.req.key)
                ELSE /\ IsSome(key_overwrite)
                     /\ NextKey_key = bytes_to_nibbles(key_overwrite[1])
                     /\ diff_get(hist.pre, key_overwrite[1]) = Some(None)
                     /\ SeqLess(hist.req.key, key_overwrite[1])
                     /\ ~\E j \in MergedKeys :
                            SeqLess(hist.req.key, j) /\ SeqLeq(j, key_overwrite[1])
    /\ (ResumedFrom("ExternalStorageNextKey") /\ OnMainTrie /\ hist.honest)
          => /\ vm.resumed.val = NextAfter(MergedKeys, hist.req.key)
             /\ hist.yields >= 1
             /\ hist.yields
                  <= 1 + Cardinality({k \in DOMAIN hist.pre : hist.pre[k] = None})
             /\ main_trie_changes = hist.pre

\* C23 witness: the overlay erases the two least keys of the backing store;
\* the client was asked three times and the VM is resumed with the third
\* key.
C23_Witness ==
    /\ ResumedFrom("ExternalStorageNextKey")
    /\ OnMainTrie
    /\ hist.honest
    /\ hist.req.key = <<>>
    /\ backing = Keys
    /\ hist.yields = 3
    /\ vm.resumed.val = Some(K3)


\* The value an append starts from: the overlay's entry when it has one (no
\* bytes for an erasure), else the client's answer (no bytes for None).
AppendPrior ==
    IF hist.req.key \in DOMAIN hist.pre
    THEN UnwrapOrDefault(hist.pre[hist.req.key])
    ELSE IF IsSome(hist.answer) /\ IsSome(hist.answer[1])
    THEN hist.answer[1][1][1]
    ELSE <<>>

\* C24 (StorageAppend routing): a main-trie StorageAppend(k, e) on a key the
\* overlay holds an entry for is served without a yield, and on a key it has
\* no entry for by exactly one StorageGet for k, during which the diff is
\* untouched; once the VM is resumed the diff holds under k the value the
\* append started from (the overlay's entry or the client's answer) with e
\* appended, which is 0x04 followed by e when that value is an erasure, None
\* or empty, and every other key of the diff is as it was.
C24_AppendRouting ==
    /\ (status = "StorageGet" /\ vm.kind = "ExternalStorageAppend")
          => /\ hist.yields = 1
             /\ StorageGet_key = hist.req.key
             /\ hist.req.key \notin DOMAIN hist.pre
             /\ main_trie_changes = hist.pre
    /\ (ResumedFrom("ExternalStorageAppend") /\ OnMainTrie)
          => /\ hist.yields = (IF hist.req.key \in DOMAIN hist.pre THEN 0 ELSE 1)
             /\ hist.yields = 1 => IsSome(hist.answer)
             /\ \E build \in Builds :
                   LET r == append_to_storage_value(AppendPrior, hist.req.to_add,
                                                    build)
                   IN  /\ ~r.panic
                       /\ diff_get(main_trie_changes, hist.req.key)
                              = Some(Some(r.value))
             /\ AppendPrior = <<>>
                   => diff_get(main_trie_changes, hist.req.key)
                          = Some(Some(<<4>> \o hist.req.to_add))
             /\ \A j \in Keys \ {hist.req.key} :
                    diff_get(main_trie_changes, j) = diff_get(hist.pre, j)
             /\ DOMAIN main_trie_changes = DOMAIN hist.pre \cup {hist.req.key}

\* C24 witness: the overlay has no entry for K3, the client answered the
\* one-element list 04 02, and the diff now holds 08 02 01 under K3.
C24_Witness ==
    /\ ResumedFrom("ExternalStorageAppend")
    /\ OnMainTrie
    /\ hist.yields = 1
    /\ hist.answer = Some(Some(<<(<<4, 2>>), "V1">>))
    /\ diff_get(main_trie_changes, hist.req.key) = Some(Some(<<8, 2, 1>>))


\* C25 (trie-root sub-protocol lifecycle): while a main-trie StorageRoot is
\* served, the calculation in flight is the one built at its first entry,
\* from the main-trie diff at that moment, the state-trie version and the
\* depth hint 16: it has issued at least as many requests as the client was
\* given statuses, so none was dropped and rebuilt in between; when the VM is
\* resumed it is with the root that calculation reports and root_calculation
\* is empty, so that the next StorageRoot builds a calculation of its own
\* from the diff of its own entry.
C25_RootLifecycle ==
    /\ (vm.kind = "ExternalStorageRoot" /\ IsSome(root_calculation))
          => /\ vm.trie = "MainTrie"
             /\ root_calculation[1].diff = hist.pre
             /\ root_calculation[1].version = state_trie_version
             /\ root_calculation[1].hint = 16
             /\ root_calculation[1].steps >= hist.yields
             /\ main_trie_changes = hist.pre
    /\ (vm.kind = "ExternalStorageRoot" /\ status \in Suspensions)
          => /\ IsSome(root_calculation)
             /\ root_calculation[1].steps >= 1
    /\ (ResumedFrom("ExternalStorageRoot") /\ OnMainTrie)
          => /\ root_calculation = None
             /\ vm.resumed.val
                  = Some(RootHash([diff |-> hist.pre, version |-> state_trie_version]))
             /\ main_trie_changes = hist.pre

\* C25 witness: after a write, a StorageRoot went through two statuses and
\* the VM is resumed with the root of the diff that holds the write.
C25_Witness ==
    /\ ResumedFrom("ExternalStorageRoot")
    /\ OnMainTrie
    /\ hist.yields = 2
    /\ hist.ops = 2
    /\ diff_get(hist.pre, K2) = Some(Some(ValueAA))
    /\ vm.resumed.val = Some(RootHash([diff |-> main_trie_changes, version |-> "V1"]))
    /\ root_calculation = None


C27_RollbackScope ==
    /\ (ResumedFrom("EndStorageTransaction") /\ hist.req.rollback)
          => /\ main_trie_changes = hist.at_start
             /\ offchain_storage_changes = hist.offchain_pre
             /\ offchain_storage_changes = hist.offchain_written
             /\ logs = hist.logs_pre
             /\ logs = hist.emitted
    /\ status = "Finished(Ok)"
          => /\ offchain_storage_changes = hist.offchain_written
             /\ logs = hist.emitted
    /\ state_trie_version = "V1"
    /\ max_log_level = 3

\* C27 witness: a transaction that wrote the main trie, wrote the off-chain
\* storage and emitted a message was rolled back: the main-trie write is
\* gone, the off-chain write and the message are there.
C27_Witness ==
    /\ ResumedFrom("EndStorageTransaction")
    /\ hist.req.rollback
    /\ hist.vm_tx = 0
    /\ hist.pre # hist.at_start
    /\ main_trie_changes = hist.at_start
    /\ hist.clean_at_start
    /\ diff_get(offchain_storage_changes, K1) = Some(Some(ValueAA))
    /\ logs = <<1>>


\* A NextKey of a next-key or clear-prefix externality is answered and the
\* driver returns NextKey again for the same externality, every answer so far
\* being the one of a client that walks the backing store.
TruthfulReYield ==
    /\ status = "NextKey"
    /\ vm.kind \in {"ExternalStorageNextKey", "ExternalStorageClearPrefix"}
    /\ status' = "NextKey"
    /\ vm' = vm
    /\ hist'.honest

\* C28 (next-key and clear-prefix iterations terminate): with a truthful
\* client, from one NextKey of a StorageNextKey or StorageClearPrefix to the
\* next the key asked strictly increases, except from the first, or-equal,
\* query of a clear-prefix to the second, where it does not decrease; a
\* truthful answer never panics: it re-yields NextKey or resumes the VM; and
\* the number of NextKey statuses of one externality is at most one more than
\* the number of keys of the backing store and of the overlay, so the VM is
\* resumed after finitely many answers.
C28_IterationsTerminate ==
    /\ [](status = "NextKey"
             /\ vm.kind \in {"ExternalStorageNextKey", "ExternalStorageClearPrefix"}
             /\ hist.honest
            => /\ TruthfulNextKey \in ClientKeyAnswers
               /\ hist.yields <= 1 + Cardinality(backing \cup DOMAIN hist.pre)
               /\ vm.kind = "ExternalStorageClearPrefix"
                     => hist.yields <= 1 + Cardinality(Matching))
    /\ [][TruthfulReYield
            => IF vm.kind = "ExternalStorageClearPrefix" /\ keys_removed_so_far = 0
               THEN SeqLeq(NextKey_key, NextKey_key')
               ELSE SeqLess(NextKey_key, NextKey_key')]_vars
    /\ [][(status = "NextKey"
             /\ vm.kind \in {"ExternalStorageNextKey", "ExternalStorageClearPrefix"}
             /\ hist'.honest /\ status' # "Prototype")
            => \/ TruthfulReYield
               \/ (status' = "Running" /\ vm'.kind = "ReadyToRun"
                      /\ vm'.resumed.op = vm.kind)]_vars

\* C28 witness: a clear-prefix over three matching keys was asked four
\* times by the driver, the last time after the greatest key, and the
\* client has always answered from the backing store.
C28_Witness ==
    /\ status = "NextKey"
    /\ vm.kind = "ExternalStorageClearPrefix"
    /\ hist.honest
    /\ hist.yields = 4
    /\ NextKey_key = bytes_to_nibbles(K3)
    /\ TruthfulNextKey = None


\* C29 (the overlay is frozen during a root calculation): from the moment a
\* main-trie StorageRoot is issued until the VM is resumed with the root,
\* whatever the client answers to StorageGet, NextKey and
\* ClosestDescendantMerkleValue, the main-trie diff, the off-chain diff, the
\* transaction stack and the logs are what they were when it was issued, and
\* the diff the calculation in flight was built from is the live main-trie
\* diff.
C29_FrozenDuringRoot ==
    /\ ((vm.kind = "ExternalStorageRoot" /\ vm.trie = "MainTrie"
            /\ status # "Prototype")
         \/ (ResumedFrom("ExternalStorageRoot") /\ OnMainTrie))
          => /\ main_trie_changes = hist.pre
             /\ offchain_storage_changes = hist.offchain_pre
             /\ main_trie_transaction = hist.tx_start
             /\ logs = hist.logs_pre
    /\ (IsSome(root_calculation) /\ status # "Prototype")
          => /\ vm.kind = "ExternalStorageRoot"
             /\ root_calculation[1].diff = main_trie_changes

\* C29 witness: over a main-trie diff that is not empty, a root calculation
\* has been fed a value by the client and the driver has returned a second
\* status; the calculation still holds the live diff.
C29_Witness ==
    /\ vm.kind = "ExternalStorageRoot"
    /\ status \in Suspensions
    /\ IsSome(root_calculation)
    /\ root_calculation[1].fed # NotFed
    /\ root_calculation[1].fed[2] = "Some"
    /\ hist.yields = 2
    /\ main_trie_changes # EmptyDiff
    /\ root_calculation[1].diff = main_trie_changes


\* Keys among the first ClearCount matching keys of the backing store that
\* the overlay already erased when the clear-prefix was issued.
ErasedBefore ==
    {k \in FirstOf(Matching, ClearCount) : diff_get(hist.pre, k) = Some(None)}

\* C30 (clear-prefix count): whatever the client answers, while a main-trie
\* clear-prefix is served the counter is the number of keys accepted so far
\* (one per NextKey returned after the first) and the key accepted last is
\* erased in the diff; the count reported to the VM is the number of keys
\* accepted, and every entry of the diff that changed is an erasure.  With a
\* truthful client the count is the number of matching backing-store keys
\* walked, those the overlay already erased included: they are erased again,
\* counted, and use up the limit like the others.
C30_ClearPrefixCount ==
    /\ (status = "NextKey" /\ vm.kind = "ExternalStorageClearPrefix")
          => /\ keys_removed_so_far = hist.yields - 1
             /\ keys_removed_so_far > 0
                   => /\ IsSome(key_overwrite)
                      /\ diff_get(main_trie_changes, key_overwrite[1]) = Some(None)
    /\ (ResumedFrom("ExternalStorageClearPrefix") /\ OnMainTrie)
          => /\ vm.resumed.val[1] = hist.yields - 1
             /\ \A k \in Changed : main_trie_changes[k] = None
             /\ Cardinality(Changed) <= vm.resumed.val[1]
             /\ hist.honest
                   => /\ vm.resumed.val[1] = ClearCount
                      /\ vm.resumed.val[1]
                           = Cardinality(Changed) + Cardinality(ErasedBefore)
                      /\ \A k \in ErasedBefore :
                             diff_get(main_trie_changes, k) = Some(None)

\* C30 witness: the overlay already erased K1, the least key of the backing
\* store; a clear-prefix limited to one key reports (1, true) and changes no
\* entry of the diff: K1 used up the limit.
C30_Witness ==
    /\ ResumedFrom("ExternalStorageClearPrefix")
    /\ OnMainTrie
    /\ hist.honest
    /\ hist.req.max_keys_to_remove = Some(1)
    /\ backing = Keys
    /\ ErasedBefore = {K1}
    /\ Changed = {}
    /\ vm.resumed.val = <<1, TRUE>>


\* C31 (commit is relative to the enclosing transaction): when a transaction
\* ends with rollback=true after a transaction inside it ended with
\* rollback=false having changed the diff, the main-trie diff is the diff at
\* the Start of the transaction rolled back, so the committed inner writes
\* are gone; and an End with rollback=false leaves the snapshots of the
\* enclosing transactions as they were taken at their Starts.
C31_CommitRelative ==
    /\ (ResumedFrom("EndStorageTransaction") /\ hist.req.rollback
           /\ hist.committed_inside)
          => /\ main_trie_changes = hist.at_start
             /\ main_trie_transaction = hist.tx_start
    /\ (ResumedFrom("EndStorageTransaction") /\ ~hist.req.rollback
           /\ Len(hist.tx_start) >= 1)
          => /\ main_trie_changes = hist.pre
             /\ main_trie_transaction = hist.tx_start

\* C31 witness: the inner transaction committed a write, the diff still held
\* it just before the End of the enclosing transaction, and that End rolled
\* it back to the diff of the enclosing Start.
C31_Witness ==
    /\ ResumedFrom("EndStorageTransaction")
    /\ hist.req.rollback
    /\ hist.committed_inside
    /\ hist.pre # hist.at_start
    /\ main_trie_changes = hist.at_start
    /\ main_trie_changes # hist.pre


====
